---- MODULE Spec2Model ----
(***************************************************************************)
(* A state-machine model of the quork quote bot: the quote store, the      *)
(* vote rows and the reaction bridge, the permission grants and the        *)
(* commands they gate, and the paginated selection views.                  *)
(*                                                                         *)
(* Text values are sequences of one-character strings.  A NULL / None text *)
(* column is the empty sequence: the chat platform never delivers an empty *)
(* string for a supplied option and the edit modal maps "" to None.        *)
(***************************************************************************)
EXTENDS Integers, Sequences, FiniteSets, Bags, TLC

(***************************************************************************)
(* Bounds of the model.                                                    *)
(* Every specification below bounds the number of operations users start   *)
(* in a run; ids, views, modals and coroutines are bounded by that alone.  *)
(***************************************************************************)
StoreSteps == 5     \* user operations of a run of SpecStore
VoteEvents == 2     \* reactions users add or remove in a run of SpecVotes
PermSteps  == 3     \* commands of a run of SpecPerm
PageSteps  == 4     \* commands and clicks of a run of SpecPages
RaceSteps  == 5     \* commands, selections and submits of a run of SpecRace
OrphanSteps == 5    \* commands, selections and reactions of a run of SpecOrphan
IgnoreEvents == 2   \* reaction events of a run of SpecIgnore
FindSteps  == 1     \* commands of a run of SpecFind
FailSteps  == 3     \* commands and callbacks of a run of SpecFail
GrantSteps == 2     \* commands of a run of SpecGrants
PickSteps  == 4     \* sessions opened and picks made in a run of SpecPick
ShownEvents == 2    \* reactions users add or take back in a run of SpecShown
EditFailEvents == 2 \* reactions users add or take back in a run of SpecEditFail
RevokeSteps == 4    \* commands, picks and submits of a run of SpecRevoke
BootSteps  == 2     \* commands of a run of SpecBoot

Users   == {1, 2}
Guilds  == {1, 2}
NoGuild == 0        \* interaction.guild_id of a direct message (falsy)
BotId   == 0        \* bot.user.id
None    == << >>

(***************************************************************************)
(* config.py / permissions.py                                              *)
(***************************************************************************)
ADMIN_IDS == {1}

EDIT_OWN        == "edit_own"
EDIT_ALL        == "edit_all"
REMOVE_OWN      == "remove_own"
REMOVE_ALL      == "remove_all"
UNTIMEOUT       == "untimeout"
CHANGE_NICKNAME == "change_nickname"
ALL_PERMISSIONS ==
    {EDIT_OWN, EDIT_ALL, REMOVE_OWN, REMOVE_ALL, UNTIMEOUT, CHANGE_NICKNAME}

items_per_page == 25

\* database.py: create_pool(max_retries: int = 5, retry_delay: int = 3)
max_retries == 5
retry_delay == 3

UP   == "up"        \* the thumbs-up emoji
DOWN == "down"      \* the thumbs-down emoji
OTHER_EMOJI == "tada"

VARIABLES
    pool,           \* bot.pool is set (database reachable at startup)
    quotes,         \* table quotes: set of rows
    nextId,         \* next value of the BIGSERIAL sequence of quotes.id
    quote_votes,    \* table quote_votes: set of rows
    permissions,    \* table permissions: set of rows
    views,          \* sequence of the selection views created so far
    modals,         \* sequence of the edit modals that are open
    messages,       \* sequence of the public quote messages posted so far
    handlers,       \* bag of the on_reaction_change coroutines in flight
    steps,          \* operations users have started so far
    modlog,         \* moderation actions performed: set of records
    last            \* the last handler that ran and what it answered

vars == <<pool, quotes, nextId, quote_votes, permissions, views, modals,
          messages, handlers, steps, modlog, last>>

(***************************************************************************)
(* Text helpers: Python / SQL string operations on character sequences.    *)
(***************************************************************************)
Lower(c) ==
    CASE c = "A" -> "a"
      [] c = "B" -> "b"
      [] c = "H" -> "h"
      [] c = "I" -> "i"
      [] OTHER   -> c

RECURSIVE Like(_, _)
\* SQL  s ILIKE p : % any run, _ any one character, backslash escapes.
Like(s, p) ==
    IF p = << >> THEN s = << >>
    ELSE IF Head(p) = "%"
         THEN Like(s, Tail(p)) \/ (s # << >> /\ Like(Tail(s), p))
    ELSE IF s = << >> THEN FALSE
    ELSE IF Head(p) = "_" THEN Like(Tail(s), Tail(p))
    ELSE IF Head(p) = "\\" /\ Len(p) > 1
         THEN Lower(Head(s)) = Lower(p[2]) /\ Like(Tail(s), Tail(Tail(p)))
    ELSE Lower(Head(s)) = Lower(Head(p)) /\ Like(Tail(s), Tail(p))

\* column ILIKE '%term%'; a NULL column matches nothing.
ILike(col, term) == col # None /\ Like(col, <<"%">> \o term \o <<"%">>)

\* COALESCE(column, '') ILIKE '%term%'
ILikeCoalesce(col, term) == Like(col, <<"%">> \o term \o <<"%">>)

(***************************************************************************)
(* Table quotes.                                                           *)
(***************************************************************************)
QuoteRow(id, g, author, text, context, by) ==
    [id |-> id, guild_id |-> g, author_name |-> author, quote_text |-> text,
     context |-> context, added_by_id |-> by, created_at |-> id]

\* variant: the unique index is on quote_text alone
UniqueViolation_Global(rows, g, text, exceptId) ==
    \E r \in rows : r.id # exceptId /\ r.quote_text = text

\* variant: the unique index is missing
UniqueViolation_NoIndex(rows, g, text, exceptId) == FALSE

\* variant: uniqueness is enforced for INSERT only, not for UPDATE
UniqueViolation_InsertOnly(rows, g, text, exceptId) ==
    /\ exceptId = 0
    /\ \E r \in rows : r.guild_id = g /\ r.quote_text = text

\* CREATE UNIQUE INDEX quotes_guild_text_idx ON quotes (guild_id, quote_text)
\* exceptId is the id of the row an UPDATE rewrites, 0 for an INSERT
UniqueViolation(rows, g, text, exceptId) ==
    \E r \in rows : r.id # exceptId /\ r.guild_id = g /\ r.quote_text = text

RECURSIVE SetToSeq(_)
\* the rows of a result set in some order
SetToSeq(S) ==
    IF S = {} THEN << >>
    ELSE LET r == CHOOSE x \in S : TRUE
         IN  <<r>> \o SetToSeq(S \ {r})

\* ORDER BY created_at DESC, as a sequence of rows
OrderByCreatedDesc(S) ==
    SortSeq(SetToSeq(S), LAMBDA a, b : a.created_at > b.created_at)

(***************************************************************************)
(* permissions.py                                                          *)
(***************************************************************************)
is_admin(user_id) == user_id \in ADMIN_IDS

\* a lookup that forgets the guild
has_permission_AnyGuild(guild_id, user_id, permission) ==
    \E r \in permissions : r.user_id = user_id /\ r.permission = permission

has_permission(guild_id, user_id, permission) ==
    \E r \in permissions :
        r.guild_id = guild_id /\ r.user_id = user_id /\ r.permission = permission

get_user_permissions(guild_id, user_id) ==
    {r.permission : r \in {x \in permissions :
                              x.guild_id = guild_id /\ x.user_id = user_id}}

\* a resolver with an implicit own-only default
can_edit_ImplicitOwn(guild_id, user_id) ==
    <<TRUE, EDIT_ALL \in get_user_permissions(guild_id, user_id)>>

can_edit(guild_id, user_id) ==
    LET perms        == get_user_permissions(guild_id, user_id)
        can_edit_all == EDIT_ALL \in perms
        can_edit_own == EDIT_OWN \in perms \/ can_edit_all
    IN  <<can_edit_own, can_edit_all>>

can_remove(guild_id, user_id) ==
    LET perms          == get_user_permissions(guild_id, user_id)
        can_remove_all == REMOVE_ALL \in perms
        can_remove_own == REMOVE_OWN \in perms \/ can_remove_all
    IN  <<can_remove_own, can_remove_all>>

\* variant: the conflict target is (guild_id, user_id)
grant_permission_PerUser(rows, guild_id, user_id, permission, granted_by) ==
    IF \E r \in rows : r.guild_id = guild_id /\ r.user_id = user_id
    THEN rows
    ELSE rows \cup {[guild_id |-> guild_id, user_id |-> user_id,
                     permission |-> permission, granted_by |-> granted_by]}

\* INSERT ... ON CONFLICT (guild_id, user_id, permission) DO NOTHING
grant_permission(rows, guild_id, user_id, permission, granted_by) ==
    IF \E r \in rows : r.guild_id = guild_id /\ r.user_id = user_id
                       /\ r.permission = permission
    THEN rows
    ELSE rows \cup {[guild_id |-> guild_id, user_id |-> user_id,
                     permission |-> permission, granted_by |-> granted_by]}

\* variant: the DELETE without " AND permission=$3"
revoke_permission_AllOfUser(rows, guild_id, user_id, permission) ==
    {r \in rows : ~(r.guild_id = guild_id /\ r.user_id = user_id)}

\* DELETE FROM permissions WHERE guild_id=$1 AND user_id=$2 AND permission=$3
revoke_permission(rows, guild_id, user_id, permission) ==
    {r \in rows : ~(r.guild_id = guild_id /\ r.user_id = user_id
                    /\ r.permission = permission)}

(***************************************************************************)
(* utils.py: the decorators guild_only and requires_db.  Guard(g) is the   *)
(* error a decorated command answers before its body runs, or "" if none.  *)
(***************************************************************************)
Guard(g) ==
    IF g = NoGuild THEN "guild_only"
    ELSE IF ~pool THEN "db_unavailable"
    ELSE ""

\* what a handler answered: arg is the quote text (add, edit submit), the
\* filters passed (edit, remove, find), the
\* chosen quote id (select), <<user, permission>> (grant, revoke), the
\* member (mod commands), <<quote id, vote value>> (the vote statement of a
\* reaction coroutine), 0 otherwise
Answer(op, user, guild, arg, result) ==
    [op |-> op, user |-> user, guild |-> guild, arg |-> arg, result |-> result]

(***************************************************************************)
(* commands/quotes.py: /quote add                                          *)
(***************************************************************************)
add_quote(user, g, quote, author, context) ==
    /\ IF Guard(g) # ""
       THEN /\ last' = Answer("add_quote", user, g, quote, Guard(g))
            /\ UNCHANGED <<quotes, nextId>>
       ELSE \* the INSERT draws the id from the sequence before the unique
            \* index is checked, so a rejected INSERT consumes an id too
            /\ nextId' = nextId + 1
            /\ IF UniqueViolation(quotes, g, quote, 0)
               THEN /\ quotes' = quotes
                    /\ last' = Answer("add_quote", user, g, quote, "already_exists")
               ELSE /\ quotes' = quotes \cup
                          {QuoteRow(nextId, g, author, quote, context, user)}
                    /\ last' = Answer("add_quote", user, g, quote, "added")
    /\ UNCHANGED <<pool, quote_votes, permissions, views, modals, messages,
                   handlers, modlog>>

(***************************************************************************)
(* utils.py: PaginatedView                                                 *)
(***************************************************************************)
Max(a, b) == IF a >= b THEN a ELSE b
Min(a, b) == IF a <= b THEN a ELSE b

\* variant: the division rounds down
total_pages_of_Floor(rows) == Max(1, Len(rows) \div items_per_page)

\* PaginatedView._update_total_pages
total_pages_of(rows) ==
    Max(1, (Len(rows) + items_per_page - 1) \div items_per_page)

\* PaginatedView.__init__ with the fields the three subclasses add; children
\* are the items of the view (none before update_view), attached says that
\* the session's message shows them
InitView(kind, rows, user_id, guild_id, search_text, author_text, show_owner) ==
    [kind |-> kind, rows |-> rows, user_id |-> user_id, guild_id |-> guild_id,
     page |-> 0, total_pages |-> total_pages_of(rows),
     search_text |-> search_text, author_text |-> author_text,
     show_owner |-> show_owner, state |-> "active",
     children |-> [select |-> "none", options |-> {},
                   prev |-> "none", next |-> "none"],
     attached |-> FALSE]

\* PaginatedView.get_page_rows
get_page_rows(v) ==
    SubSeq(v.rows, v.page * items_per_page + 1,
           Min(Len(v.rows), v.page * items_per_page + items_per_page))

\* the ids of the rows of the current page
PageIds(v) == {get_page_rows(v)[i].id : i \in 1..Len(get_page_rows(v))}

\* variant: the next button is disabled one page too late
update_view_NextLate(v) ==
    [v EXCEPT !.children =
        [select  |-> IF get_page_rows(v) # << >> THEN "enabled" ELSE "none",
         options |-> PageIds(v),
         prev    |-> IF v.total_pages > 1
                     THEN IF v.page = 0 THEN "disabled" ELSE "enabled"
                     ELSE "none",
         next    |-> IF v.total_pages > 1
                     THEN IF v.page > v.total_pages - 1 THEN "disabled" ELSE "enabled"
                     ELSE "none"]]

\* PaginatedView.update_view: clear_items, a select over the page's rows if
\* there are any, and the two buttons if there is more than one page
update_view(v) ==
    [v EXCEPT !.children =
        [select  |-> IF get_page_rows(v) # << >> THEN "enabled" ELSE "none",
         options |-> PageIds(v),
         prev    |-> IF v.total_pages > 1
                     THEN IF v.page = 0 THEN "disabled" ELSE "enabled"
                     ELSE "none",
         next    |-> IF v.total_pages > 1
                     THEN IF v.page >= v.total_pages - 1 THEN "disabled" ELSE "enabled"
                     ELSE "none"]]

\* the view a command builds, renders and sends:
\* view = XView(...); view.update_view(); followup.send(view=view)
NewView(kind, rows, user_id, guild_id, search_text, author_text, show_owner) ==
    [update_view(InitView(kind, rows, user_id, guild_id, search_text,
                          author_text, show_owner))
        EXCEPT !.attached = TRUE]

RowIds(rows) == {rows[i].id : i \in 1..Len(rows)}

\* variant: the rows are matched against the store again
RowsWithout_Fresh(rows, quote_id) ==
    SelectSeq(rows, LAMBDA r : r.id # quote_id /\ \E q \in quotes : q.id = r.id)

\* variant: the list is left as it was
RowsWithout_Keep(rows, quote_id) == rows

\* [r for r in self.rows if r['id'] != quote_id]
RECURSIVE RowsWithout(_, _)
RowsWithout(rows, quote_id) ==
    IF rows = << >> THEN << >>
    ELSE IF Head(rows).id = quote_id THEN RowsWithout(Tail(rows), quote_id)
    ELSE <<Head(rows)>> \o RowsWithout(Tail(rows), quote_id)

(***************************************************************************)
(* commands/quotes.py: /quote edit and /quote remove                       *)
(***************************************************************************)
\* variant: the query without " AND added_by_id=$2"
EditCandidates_Unrestricted(g, user, can_all, search, author) ==
    OrderByCreatedDesc(
        {q \in quotes :
            /\ q.guild_id = g
            /\ (search # None =>
                   \/ ILike(q.quote_text, search)
                   \/ ILikeCoalesce(q.author_name, search)
                   \/ ILikeCoalesce(q.context, search))
            /\ (author # None => ILike(q.author_name, author))})

\* the rows of the SELECT that /quote edit builds
EditCandidates(g, user, can_all, search, author) ==
    OrderByCreatedDesc(
        {q \in quotes :
            /\ q.guild_id = g
            /\ (can_all \/ q.added_by_id = user)
            /\ (search # None =>
                   \/ ILike(q.quote_text, search)
                   \/ ILikeCoalesce(q.author_name, search)
                   \/ ILikeCoalesce(q.context, search))
            /\ (author # None => ILike(q.author_name, author))})

\* the rows of the SELECT that /quote remove builds
RemoveCandidates(g, user, can_all, search, author, context) ==
    OrderByCreatedDesc(
        {q \in quotes :
            /\ q.guild_id = g
            /\ (can_all \/ q.added_by_id = user)
            /\ (search # None => ILike(q.quote_text, search))
            /\ (author # None => ILike(q.author_name, author))
            /\ (context # None => ILike(q.context, context))})

\* variant: the context filter is not applied
FindCandidates_NoContext(g, search, author, context) ==
    OrderByCreatedDesc(
        {q \in quotes :
            /\ q.guild_id = g
            /\ (search # None => ILike(q.quote_text, search))
            /\ (author # None => ILike(q.author_name, author))})

\* the rows of the SELECT that /quote find builds
FindCandidates(g, search, author, context) ==
    OrderByCreatedDesc(
        {q \in quotes :
            /\ q.guild_id = g
            /\ (search # None => ILike(q.quote_text, search))
            /\ (author # None => ILike(q.author_name, author))
            /\ (context # None => ILike(q.context, context))})

\* /quote find: FindView keeps no guild id (the interaction carries it)
find_quote(user, g, search, author, context) ==
    /\ LET rows == FindCandidates(g, search, author, context)
           arg  == <<search, author, context>>
       IN  IF Guard(g) # ""
           THEN /\ last' = Answer("find_quote", user, g, arg, Guard(g))
                /\ views' = views
           ELSE IF search = None /\ author = None /\ context = None
           THEN /\ last' = Answer("find_quote", user, g, arg, "no_filter")
                /\ views' = views
           ELSE IF rows = << >>
           THEN /\ last' = Answer("find_quote", user, g, arg, "no_quotes")
                /\ views' = views
           ELSE /\ views' = Append(views,
                      NewView("find", rows, user, NoGuild, search, author, FALSE))
                /\ last' = Answer("find_quote", user, g, arg, "view_opened")
    /\ UNCHANGED <<pool, quotes, nextId, quote_votes, permissions, modals,
                   messages, handlers, modlog>>

\* variant: the SELECT runs first and an empty result is answered before
\* the rights are looked at
edit_quote_QueryFirst(user, g, search, author) ==
    /\ LET rights == can_edit(g, user)
           rows   == EditCandidates(g, user, rights[2], search, author)
       IN  IF Guard(g) # ""
           THEN /\ last' = Answer("edit_quote", user, g, <<search, author>>, Guard(g))
                /\ views' = views
           ELSE IF rows = << >>
           THEN /\ last' = Answer("edit_quote", user, g, <<search, author>>, "no_quotes")
                /\ views' = views
           ELSE IF ~rights[1] /\ ~rights[2]
           THEN /\ last' = Answer("edit_quote", user, g, <<search, author>>, "no_permission")
                /\ views' = views
           ELSE /\ views' = Append(views,
                      NewView("edit", rows, user, g, search, author, rights[2]))
                /\ last' = Answer("edit_quote", user, g, <<search, author>>, "view_opened")
    /\ UNCHANGED <<pool, quotes, nextId, quote_votes, permissions, modals,
                   messages, handlers, modlog>>

edit_quote(user, g, search, author) ==
    /\ LET rights == can_edit(g, user)
           rows   == EditCandidates(g, user, rights[2], search, author)
       IN  IF Guard(g) # ""
           THEN /\ last' = Answer("edit_quote", user, g, <<search, author>>, Guard(g))
                /\ views' = views
           ELSE IF ~rights[1] /\ ~rights[2]
           THEN /\ last' = Answer("edit_quote", user, g, <<search, author>>, "no_permission")
                /\ views' = views
           ELSE IF rows = << >>
           THEN /\ last' = Answer("edit_quote", user, g, <<search, author>>, "no_quotes")
                /\ views' = views
           ELSE /\ views' = Append(views,
                      NewView("edit", rows, user, g, search, author, rights[2]))
                /\ last' = Answer("edit_quote", user, g, <<search, author>>, "view_opened")
    /\ UNCHANGED <<pool, quotes, nextId, quote_votes, permissions, modals,
                   messages, handlers, modlog>>

remove_quote(user, g, search, author, context) ==
    /\ LET rights == can_remove(g, user)
           rows   == RemoveCandidates(g, user, rights[2], search, author, context)
       IN  IF Guard(g) # ""
           THEN /\ last' = Answer("remove_quote", user, g, <<search, author, context>>, Guard(g))
                /\ views' = views
           ELSE IF ~rights[1] /\ ~rights[2]
           THEN /\ last' = Answer("remove_quote", user, g, <<search, author, context>>, "no_permission")
                /\ views' = views
           ELSE IF rows = << >>
           THEN /\ last' = Answer("remove_quote", user, g, <<search, author, context>>, "no_quotes")
                /\ views' = views
           ELSE /\ views' = Append(views,
                      NewView("remove", rows, user, g, search, author, rights[2]))
                /\ last' = Answer("remove_quote", user, g, <<search, author, context>>, "view_opened")
    /\ UNCHANGED <<pool, quotes, nextId, quote_votes, permissions, modals,
                   messages, handlers, modlog>>

(***************************************************************************)
(* Views: the select callback of an edit view, the edit modal, and the     *)
(* select callback of a remove view.                                       *)
(***************************************************************************)
\* variant: every actor passes
check_user_Anyone(v, actor) == TRUE

\* PaginatedView._check_user
check_user(v, actor) == actor = v.user_id

\* variant: the page is left where it was
ClampPage_Keep(page, total_pages) == page

\* self.page = min(self.page, self.total_pages - 1)
ClampPage(page, total_pages) == Min(page, total_pages - 1)

\* variant: the DELETE is not scoped by guild
DeleteQuote_AnyGuild(rows, quote_id, guild_id) ==
    {r \in rows : r.id # quote_id}

\* DELETE FROM quotes WHERE id=$1 AND guild_id=$2
DeleteQuote(rows, quote_id, guild_id) ==
    {r \in rows : ~(r.id = quote_id /\ r.guild_id = guild_id)}

\* variant: the command tag is taken for a deletion whatever it says
DeleteTag_Ignored(before, after) == "DELETE 1"

\* the command tag conn.execute returns for the DELETE
DeleteTag(before, after) ==
    IF after = before THEN "DELETE 0" ELSE "DELETE 1"

\* variant: quote_votes.quote_id declared without ON DELETE CASCADE
CascadeVotes_None(votes, quote_id) == votes

\* ON DELETE CASCADE of quote_votes.quote_id
CascadeVotes(votes, quote_id) == {v \in votes : v.quote_id # quote_id}

\* PaginatedView._select_callback / EditView.on_select
EditView_on_select(i, actor, quote_id) ==
    /\ i \in 1..Len(views)
    /\ views[i].kind = "edit"
    /\ views[i].state = "active"
    /\ IF ~check_user(views[i], actor)
       THEN /\ last' = Answer("select", actor, views[i].guild_id, quote_id, "not_your_selection")
            /\ modals' = modals
       ELSE IF quote_id \notin RowIds(views[i].rows)
       THEN /\ last' = Answer("select", actor, views[i].guild_id, quote_id, "quote_not_found")
            /\ modals' = modals
       ELSE LET quote == CHOOSE r \in {views[i].rows[k] : k \in 1..Len(views[i].rows)} :
                             r.id = quote_id
            IN  /\ modals' = Append(modals,
                       [quote |-> quote, guild_id |-> views[i].guild_id,
                        user_id |-> actor])
                /\ last' = Answer("select", actor, views[i].guild_id, quote_id, "modal_opened")
    /\ UNCHANGED <<pool, quotes, nextId, quote_votes, permissions, views,
                   messages, handlers, modlog>>

\* variant: the UPDATE also refreshes created_at
UpdateQuote_Touch(rows, id, guild_id, text, author, context) ==
    {IF r.id = id /\ r.guild_id = guild_id
     THEN [r EXCEPT !.quote_text = text, !.author_name = author,
                    !.context = context, !.created_at = nextId]
     ELSE r : r \in rows}

\* UPDATE quotes SET quote_text=$1, author_name=$2, context=$3
\*  WHERE id=$4 AND guild_id=$5
UpdateQuote(rows, id, guild_id, text, author, context) ==
    {IF r.id = id /\ r.guild_id = guild_id
     THEN [r EXCEPT !.quote_text = text, !.author_name = author,
                    !.context = context]
     ELSE r : r \in rows}

\* EditQuoteModal.on_submit
EditQuoteModal_on_submit(j, text, author, context) ==
    /\ j \in 1..Len(modals)
    /\ LET m      == modals[j]
           target == {r \in quotes : r.id = m.quote.id /\ r.guild_id = m.guild_id}
       IN  /\ modals' = SubSeq(modals, 1, j - 1) \o SubSeq(modals, j + 1, Len(modals))
           /\ IF target # {} /\ UniqueViolation(quotes, m.guild_id, text, m.quote.id)
              THEN \* the unique index rejects the UPDATE; except Exception
                   /\ quotes' = quotes
                   /\ last' = Answer("edit_submit", m.user_id, m.guild_id, text, "update_failed")
              ELSE /\ quotes' = UpdateQuote(quotes, m.quote.id, m.guild_id,
                                            text, author, context)
                   /\ last' = Answer("edit_submit", m.user_id, m.guild_id, text, "updated")
    /\ UNCHANGED <<pool, nextId, quote_votes, permissions, views, messages,
                   handlers, modlog>>

\* PaginatedView._select_callback / RemoveView.on_select
RemoveView_on_select(i, actor, quote_id) ==
    /\ i \in 1..Len(views)
    /\ views[i].kind = "remove"
    /\ views[i].state = "active"
    /\ LET v       == views[i]
           kept    == DeleteQuote(quotes, quote_id, v.guild_id)
           votes2  == IF kept = quotes THEN quote_votes
                      ELSE CascadeVotes(quote_votes, quote_id)
           rows2   == RowsWithout(v.rows, quote_id)
           pages2  == total_pages_of(rows2)
       IN  IF ~check_user(v, actor)
           THEN /\ last' = Answer("select", actor, v.guild_id, quote_id, "not_your_selection")
                /\ UNCHANGED <<quotes, quote_votes, views>>
           ELSE IF DeleteTag(quotes, kept) = "DELETE 0"
           THEN /\ quotes' = kept
                /\ quote_votes' = votes2
                /\ views' = views
                /\ last' = Answer("select", actor, v.guild_id, quote_id, "not_found_or_deleted")
           ELSE /\ quotes' = kept
                /\ quote_votes' = votes2
                /\ views' = [views EXCEPT ![i] =
                      LET v2 == [v EXCEPT !.rows = rows2,
                                          !.total_pages = pages2,
                                          !.page = ClampPage(v.page, pages2)]
                      IN  IF rows2 = << >>
                          THEN \* edit_message(embed="All quotes removed!", view=None)
                               [v2 EXCEPT !.state = "all_removed",
                                          !.attached = FALSE]
                          ELSE update_view(v2)]
                /\ last' = Answer("select", actor, v.guild_id, quote_id, "removed")
    /\ UNCHANGED <<pool, nextId, permissions, modals, messages, handlers,
                   modlog>>

\* PaginatedView._prev_callback; arg is the page shown afterwards
PaginatedView_prev_callback(i, actor) ==
    /\ i \in 1..Len(views)
    /\ views[i].state = "active"
    /\ LET v  == views[i]
           v2 == [v EXCEPT !.page = Max(0, v.page - 1)]
       IN  IF ~check_user(v, actor)
           THEN /\ last' = Answer("prev", actor, v.guild_id, v.page, "not_your_selection")
                /\ views' = views
           ELSE /\ views' = [views EXCEPT ![i] = update_view(v2)]
                /\ last' = Answer("prev", actor, v.guild_id, v2.page, "page_shown")
    /\ UNCHANGED <<pool, quotes, nextId, quote_votes, permissions, modals,
                   messages, handlers, modlog>>

\* PaginatedView._next_callback; arg is the page shown afterwards
PaginatedView_next_callback(i, actor) ==
    /\ i \in 1..Len(views)
    /\ views[i].state = "active"
    /\ LET v  == views[i]
           v2 == [v EXCEPT !.page = Min(v.total_pages - 1, v.page + 1)]
       IN  IF ~check_user(v, actor)
           THEN /\ last' = Answer("next", actor, v.guild_id, v.page, "not_your_selection")
                /\ views' = views
           ELSE /\ views' = [views EXCEPT ![i] = update_view(v2)]
                /\ last' = Answer("next", actor, v.guild_id, v2.page, "page_shown")
    /\ UNCHANGED <<pool, quotes, nextId, quote_votes, permissions, modals,
                   messages, handlers, modlog>>

\* variant: on_timeout edits the message but disables nothing
DisableAll_Nothing(children) == children

\* item.disabled = True for every item of the view
DisableAll(children) ==
    [children EXCEPT
        !.select = IF @ = "none" THEN "none" ELSE "disabled",
        !.prev   = IF @ = "none" THEN "none" ELSE "disabled",
        !.next   = IF @ = "none" THEN "none" ELSE "disabled"]

\* PaginatedView.on_timeout, run by the library once no interaction reached
\* the view for its timeout; the view is finished from then on and gets no
\* callback.  message.edit(view=self) shows the disabled items.
PaginatedView_on_timeout(i) ==
    /\ i \in 1..Len(views)
    /\ views[i].state # "timed_out"
    /\ views' = [views EXCEPT ![i] =
          [@ EXCEPT !.children = DisableAll(@),
                    !.attached = TRUE,
                    !.state = "timed_out"]]
    /\ last' = Answer("timeout", views[i].user_id, views[i].guild_id, i, "disabled")
    /\ UNCHANGED <<pool, quotes, nextId, quote_votes, permissions, modals,
                   messages, handlers, steps, modlog>>

(***************************************************************************)
(* commands/quotes.py: /quote permissions grant | revoke                   *)
(***************************************************************************)
grant_perm(actor, g, user, permission) ==
    /\ IF Guard(g) # ""
       THEN /\ last' = Answer("grant_perm", actor, g, <<user, permission>>, Guard(g))
            /\ permissions' = permissions
       ELSE IF ~is_admin(actor)
       THEN /\ last' = Answer("grant_perm", actor, g, <<user, permission>>, "admins_only")
            /\ permissions' = permissions
       ELSE /\ permissions' = grant_permission(permissions, g, user, permission, actor)
            /\ last' = Answer("grant_perm", actor, g, <<user, permission>>, "granted")
    /\ UNCHANGED <<pool, quotes, nextId, quote_votes, views, modals, messages,
                   handlers, modlog>>

revoke_perm(actor, g, user, permission) ==
    /\ IF Guard(g) # ""
       THEN /\ last' = Answer("revoke_perm", actor, g, <<user, permission>>, Guard(g))
            /\ permissions' = permissions
       ELSE IF ~is_admin(actor)
       THEN /\ last' = Answer("revoke_perm", actor, g, <<user, permission>>, "admins_only")
            /\ permissions' = permissions
       ELSE /\ permissions' = revoke_permission(permissions, g, user, permission)
            /\ last' = Answer("revoke_perm", actor, g, <<user, permission>>,
                   IF permissions' # permissions THEN "revoked" ELSE "did_not_have")
    /\ UNCHANGED <<pool, quotes, nextId, quote_votes, views, modals, messages,
                   handlers, modlog>>

\* permissions.get_users_with_permission
get_users_with_permission(guild_id, permission) ==
    {r.user_id : r \in {x \in permissions :
                           x.guild_id = guild_id /\ x.permission = permission}}

\* /quote permissions list: arg is the listing, one field per permission
list_perms(actor, g) ==
    /\ IF Guard(g) # ""
       THEN last' = Answer("list_perms", actor, g, 0, Guard(g))
       ELSE IF ~is_admin(actor)
       THEN last' = Answer("list_perms", actor, g, 0, "admins_only")
       ELSE last' = Answer("list_perms", actor, g,
                           [p \in ALL_PERMISSIONS |-> get_users_with_permission(g, p)],
                           "listed")
    /\ UNCHANGED <<pool, quotes, nextId, quote_votes, permissions, views,
                   modals, messages, handlers, modlog>>

(***************************************************************************)
(* commands/moderation.py: /mod untimeout and /mod nickname.  The platform *)
(* may refuse the action (discord.Forbidden) whatever the bot decided.     *)
(***************************************************************************)
ModAuthorized(actor, g, permission) ==
    is_admin(actor) \/ has_permission(g, actor, permission)

ModCommand(op, permission, actor, g, member, forbidden) ==
    /\ IF Guard(g) # ""
       THEN /\ last' = Answer(op, actor, g, member, Guard(g))
            /\ modlog' = modlog
       ELSE IF ~ModAuthorized(actor, g, permission)
       THEN /\ last' = Answer(op, actor, g, member, "no_permission")
            /\ modlog' = modlog
       ELSE IF forbidden
       THEN /\ last' = Answer(op, actor, g, member, "bot_forbidden")
            /\ modlog' = modlog
       ELSE /\ modlog' = modlog \cup
                  {[action |-> op, actor |-> actor, guild |-> g, member |-> member]}
            /\ last' = Answer(op, actor, g, member, "done")
    /\ UNCHANGED <<pool, quotes, nextId, quote_votes, permissions, views,
                   modals, messages, handlers>>

untimeout_member(actor, g, member, forbidden) ==
    ModCommand("untimeout", UNTIMEOUT, actor, g, member, forbidden)

change_nickname(actor, g, member, forbidden) ==
    ModCommand("nickname", CHANGE_NICKNAME, actor, g, member, forbidden)

(***************************************************************************)
(* commands/quotes.py: quote presentation.  The footer of a posted quote   *)
(* is "[<score>]  *  <date>  *  <creator>  *  #<id>" ("*" stands for the   *)
(* bullet character).                                                      *)
(***************************************************************************)
Digits == <<"0", "1", "2", "3", "4", "5", "6", "7", "8", "9">>

IsDigit(c) == \E d \in 1..Len(Digits) : Digits[d] = c

DigitValue(c) == (CHOOSE d \in 1..Len(Digits) : Digits[d] = c) - 1

RECURSIVE NatToStr(_)
NatToStr(n) ==
    IF n < 10 THEN <<Digits[n + 1]>>
    ELSE NatToStr(n \div 10) \o <<Digits[(n % 10) + 1]>>

\* Python str(n)
IntToStr(n) == IF n < 0 THEN <<"-">> \o NatToStr(0 - n) ELSE NatToStr(n)

RECURSIVE StrToNat(_)
\* Python int(s) of a string of digits
StrToNat(s) ==
    IF s = << >> THEN 0
    ELSE 10 * StrToNat(SubSeq(s, 1, Len(s) - 1)) + DigitValue(s[Len(s)])

\* score_str = f"+{score}" if score > 0 else str(score)
ScoreStr(score) ==
    IF score > 0 THEN <<"+">> \o IntToStr(score) ELSE IntToStr(score)

Sep == <<" ", " ", "*", " ", " ">>

\* utils.format_date: "%B %d, %Y" of created_at (the model's clock is the id)
format_date(created_at) ==
    <<"M", "a", "y", " ", "0">> \o NatToStr(created_at % 10)
        \o <<",", " ", "2", "0", "2", "5">>

\* utils.get_user_display_info: the display name of the submitter
DisplayName(user_id) ==
    CASE user_id = 1 -> <<"A", "n", "n">>
      [] user_id = 2 -> <<"B", "o", "b">>
      [] OTHER       -> <<"U", "s", "e", "r", " ">> \o NatToStr(user_id)

\* create_quote_embed: the footer text
FooterText(score, date_str, creator_name, quote_id) ==
    <<"[">> \o ScoreStr(score) \o <<"]">> \o Sep \o date_str \o Sep
        \o creator_name \o Sep \o <<"#">> \o NatToStr(quote_id)

AllDigits(s) == \A k \in 1..Len(s) : IsDigit(s[k])

\* re.search(r"#(\d+)$", text): the start of the leftmost match, 0 if none
IdMatchStart(text) ==
    LET starts == {k \in 1..Len(text) :
                      /\ text[k] = "#"
                      /\ k < Len(text)
                      /\ AllDigits(SubSeq(text, k + 1, Len(text)))}
    IN  IF starts = {} THEN 0
        ELSE CHOOSE k \in starts : \A k2 \in starts : k <= k2

\* int(match.group(1))
FooterQuoteId(text) ==
    StrToNat(SubSeq(text, IdMatchStart(text) + 1, Len(text)))

RECURSIVE DigitRun(_, _)
\* the number of digits of text from position k on
DigitRun(text, k) ==
    IF k > Len(text) \/ ~IsDigit(text[k]) THEN 0
    ELSE 1 + DigitRun(text, k + 1)

\* the length of the match of r"\[[+\-]?\d+\]" at position k, 0 if none
ScoreTokenLen(text, k) ==
    IF k > Len(text) \/ text[k] # "[" THEN 0
    ELSE LET sign == IF k + 1 <= Len(text) /\ text[k + 1] \in {"+", "-"}
                     THEN 1 ELSE 0
             run  == DigitRun(text, k + 1 + sign)
             stop == k + 1 + sign + run
         IN  IF run > 0 /\ stop <= Len(text) /\ text[stop] = "]"
             THEN stop - k + 1
             ELSE 0

RECURSIVE SubScoreFrom(_, _, _)
\* re.sub(r"\[[+\-]?\d+\]", repl, text) from position k on: every match,
\* left to right, is replaced
SubScoreFrom(text, k, repl) ==
    IF k > Len(text) THEN << >>
    ELSE IF ScoreTokenLen(text, k) > 0
         THEN repl \o SubScoreFrom(text, k + ScoreTokenLen(text, k), repl)
         ELSE <<text[k]>> \o SubScoreFrom(text, k + 1, repl)

\* new_footer = re.sub(r"\[[+\-]?\d+\]", f"[{score_str}]", footer)
RewriteFooter(text, new_score) ==
    SubScoreFrom(text, 1, <<"[">> \o ScoreStr(new_score) \o <<"]">>)

(***************************************************************************)
(* Table quote_votes and get_quote_score.                                  *)
(***************************************************************************)
VoteRow(q, u, val) == [quote_id |-> q, user_id |-> u, vote |-> val]

VotesOf(votes, q) == {v \in votes : v.quote_id = q}

RECURSIVE SumVotes(_)
SumVotes(S) ==
    IF S = {} THEN 0
    ELSE LET v == CHOOSE x \in S : TRUE IN v.vote + SumVotes(S \ {v})

\* SELECT SUM(vote) FROM quote_votes WHERE quote_id=$1 : NULL without rows
SelectSum(votes, q) ==
    IF VotesOf(votes, q) = {} THEN [null |-> TRUE, val |-> 0]
    ELSE [null |-> FALSE, val |-> SumVotes(VotesOf(votes, q))]

\* variant: COUNT(*) in place of SUM(vote)
get_quote_score_count(votes, q) == Cardinality(VotesOf(votes, q))

\* return val or 0
get_quote_score(votes, q) ==
    LET r == SelectSum(votes, q)
    IN  IF r.null \/ r.val = 0 THEN 0 ELSE r.val

\* variant: a plain INSERT without the ON CONFLICT clause and without the
\* primary key that would reject it
UpsertVote_Insert(votes, q, u, val) == votes \cup {VoteRow(q, u, val)}

\* INSERT INTO quote_votes ... ON CONFLICT (quote_id, user_id)
\*   DO UPDATE SET vote=$3
UpsertVote(votes, q, u, val) ==
    {v \in votes : ~(v.quote_id = q /\ v.user_id = u)} \cup {VoteRow(q, u, val)}

\* variant: the DELETE does not compare the vote value
RetractVote_AnyValue(votes, q, u, val) ==
    {v \in votes : ~(v.quote_id = q /\ v.user_id = u)}

\* DELETE FROM quote_votes WHERE quote_id=$1 AND user_id=$2 AND vote=$3
RetractVote(votes, q, u, val) ==
    {v \in votes : ~(v.quote_id = q /\ v.user_id = u /\ v.vote = val)}

(***************************************************************************)
(* Public quote messages and their reactions.                              *)
(***************************************************************************)
\* the message /quote random and FindView.on_select post for quote row q,
\* with the two reactions the bot adds to it
PostedMessage(q, score) ==
    [author    |-> BotId,
     footer    |-> FooterText(score, format_date(q.created_at),
                              DisplayName(q.added_by_id), q.id),
     reactions |-> {<<BotId, UP>>, <<BotId, DOWN>>}]

Opposite(emoji) == IF emoji = UP THEN DOWN ELSE UP

VoteVal(emoji) == IF emoji = UP THEN 1 ELSE -1

\* a coroutine of on_reaction_change at its first await, with its locals
NewHandler(user_id, message_id, emoji, added) ==
    [user_id |-> user_id, message_id |-> message_id,
     emoji |-> emoji, added |-> added, pc |-> "fetch",
     footer |-> None, quote_id |-> 0, new_score |-> 0]

\* the bag hs with one coroutine h more, one less, and with one h turned h2
Spawn(hs, h) == hs (+) SetToBag({h})
Finish(hs, h) == hs (-) SetToBag({h})
Advance(hs, h, h2) == Spawn(Finish(hs, h), h2)

\* variant: every emoji counts as a vote
Accepted_AnyEmoji(user_id, emoji) == user_id # BotId /\ pool

\* on_reaction_change up to its first await: whether the event is handled
Accepted(user_id, emoji) == user_id # BotId /\ emoji \in {UP, DOWN} /\ pool

\* the coroutines after the platform dispatched a raw reaction event
Dispatch(hs, user_id, message_id, emoji, added) ==
    IF Accepted(user_id, emoji)
    THEN Spawn(hs, NewHandler(user_id, message_id, emoji, added))
    ELSE hs

(***************************************************************************)
(* commands/quotes.py: the reaction listeners.  A user adding or removing  *)
(* a reaction makes the platform dispatch on_raw_reaction_add / _remove;   *)
(* on_reaction_change then runs as a coroutine that yields at each await:  *)
(* fetch_message, the vote statement, remove_reaction, get_quote_score and *)
(* message.edit.                                                           *)
(***************************************************************************)
UNCHANGED_ByReactions ==
    UNCHANGED <<pool, quotes, nextId, permissions, views, modals, modlog>>

ReactionAdd(user_id, m, emoji) ==
    /\ m \in 1..Len(messages)
    /\ <<user_id, emoji>> \notin messages[m].reactions
    /\ messages' = [messages EXCEPT ![m].reactions = @ \cup {<<user_id, emoji>>}]
    /\ handlers' = Dispatch(handlers, user_id, m, emoji, TRUE)
    /\ UNCHANGED <<quote_votes, last>>
    /\ UNCHANGED_ByReactions

\* a reaction on a message that is gone when the coroutine fetches it
ReactionAddUnresolved(user_id, emoji) ==
    /\ handlers' = Dispatch(handlers, user_id, Len(messages) + 1, emoji, TRUE)
    /\ UNCHANGED <<quote_votes, messages, last>>
    /\ UNCHANGED_ByReactions

ReactionRemove(user_id, m, emoji) ==
    /\ m \in 1..Len(messages)
    /\ <<user_id, emoji>> \in messages[m].reactions
    /\ messages' = [messages EXCEPT ![m].reactions = @ \ {<<user_id, emoji>>}]
    /\ handlers' = Dispatch(handlers, user_id, m, emoji, FALSE)
    /\ UNCHANGED <<quote_votes, last>>
    /\ UNCHANGED_ByReactions

\* message = await channel.fetch_message(...); the author, embed and footer
\* checks; quote_id = int(match.group(1))
Handler_fetch(h) ==
    /\ BagIn(h, handlers)
    /\ h.pc = "fetch"
    /\ LET msg == messages[h.message_id]
       IN  IF \/ h.message_id \notin 1..Len(messages)     \* discord.NotFound
              \/ msg.author # BotId
              \/ msg.footer = << >>
              \/ IdMatchStart(msg.footer) = 0
           THEN handlers' = Finish(handlers, h)
           ELSE handlers' = Advance(handlers, h,
                    [h EXCEPT !.pc = "db", !.footer = msg.footer,
                              !.quote_id = FooterQuoteId(msg.footer)])
    /\ UNCHANGED <<quote_votes, messages, last, steps>>
    /\ UNCHANGED_ByReactions

\* the upsert (added) or the conditional delete (removed)
Handler_db(h) ==
    /\ BagIn(h, handlers)
    /\ h.pc = "db"
    /\ LET val == VoteVal(h.emoji)
           arg == <<h.quote_id, val>>
       IN  IF h.added
           THEN IF \A q \in quotes : q.id # h.quote_id
                THEN \* REFERENCES quotes(id): the INSERT raises, the outer
                     \* except prints and the coroutine ends
                     /\ quote_votes' = quote_votes
                     /\ handlers' = Finish(handlers, h)
                     /\ last' = Answer("reaction_db", h.user_id, 0, arg, "fk_violation")
                ELSE /\ quote_votes' = UpsertVote(quote_votes, h.quote_id, h.user_id, val)
                     /\ handlers' = Advance(handlers, h, [h EXCEPT !.pc = "unreact"])
                     /\ last' = Answer("reaction_db", h.user_id, 0, arg,
                            IF VoteRow(h.quote_id, h.user_id, 0 - val) \in quote_votes
                            THEN "vote_replaced" ELSE "vote_stored")
           ELSE /\ quote_votes' = RetractVote(quote_votes, h.quote_id, h.user_id, val)
                /\ IF quote_votes' = quote_votes
                   THEN \* "DELETE 0": updated stays False
                        /\ handlers' = Finish(handlers, h)
                        /\ last' = Answer("reaction_db", h.user_id, 0, arg, "nothing_deleted")
                   ELSE /\ handlers' = Advance(handlers, h, [h EXCEPT !.pc = "score"])
                        /\ last' = Answer("reaction_db", h.user_id, 0, arg, "vote_deleted")
    /\ UNCHANGED <<messages, steps>>
    /\ UNCHANGED_ByReactions

\* await message.remove_reaction(opposite_emoji, member): when the voter has
\* that reaction the platform removes it and dispatches its removal event
Handler_unreact(h) ==
    /\ BagIn(h, handlers)
    /\ h.pc = "unreact"
    /\ LET opp  == Opposite(h.emoji)
           rest == Advance(handlers, h, [h EXCEPT !.pc = "score"])
       IN  IF <<h.user_id, opp>> \in messages[h.message_id].reactions
           THEN /\ messages' = [messages EXCEPT ![h.message_id].reactions =
                                    @ \ {<<h.user_id, opp>>}]
                /\ handlers' = Dispatch(rest, h.user_id, h.message_id, opp, FALSE)
           ELSE /\ messages' = messages
                /\ handlers' = rest
    /\ UNCHANGED <<quote_votes, last, steps>>
    /\ UNCHANGED_ByReactions

\* new_score = await get_quote_score(bot.pool, quote_id)
Handler_score(h) ==
    /\ BagIn(h, handlers)
    /\ h.pc = "score"
    /\ handlers' = Advance(handlers, h,
           [h EXCEPT !.pc = "edit",
                     !.new_score = get_quote_score(quote_votes, h.quote_id)])
    /\ UNCHANGED <<quote_votes, messages, last, steps>>
    /\ UNCHANGED_ByReactions

\* embed.set_footer(text=new_footer); await message.edit(embed=embed)
Handler_edit(h) ==
    /\ BagIn(h, handlers)
    /\ h.pc = "edit"
    /\ messages' = [messages EXCEPT ![h.message_id].footer =
                        RewriteFooter(h.footer, h.new_score)]
    /\ handlers' = Finish(handlers, h)
    /\ UNCHANGED <<quote_votes, last, steps>>
    /\ UNCHANGED_ByReactions

\* variant: the coroutine stays at the edit and tries again
Handler_edit_fails_Retry(h) ==
    /\ BagIn(h, handlers)
    /\ h.pc = "edit"
    /\ handlers' = handlers
    /\ last' = Answer("on_reaction_change", h.user_id, 0, h.quote_id, "error_printed")
    /\ UNCHANGED <<quote_votes, messages, steps>>
    /\ UNCHANGED_ByReactions

\* await message.edit(embed=embed) raising (the message was deleted, the bot
\* lost the right to edit, HTTP error): the outer "except Exception" prints
\* the error and the coroutine returns
Handler_edit_fails(h) ==
    /\ BagIn(h, handlers)
    /\ h.pc = "edit"
    /\ handlers' = Finish(handlers, h)
    /\ last' = Answer("on_reaction_change", h.user_id, 0, h.quote_id, "error_printed")
    /\ UNCHANGED <<quote_votes, messages, steps>>
    /\ UNCHANGED_ByReactions

(***************************************************************************)
(* commands/quotes.py: a pick from a remove session, by await.             *)
(***************************************************************************)
\* RemoveView.on_select as the coroutine it is, in two steps.  The first runs
\* up to the return of "await conn.execute(DELETE ...)": the statement has
\* taken effect and its command tag is a local of the coroutine.
RemoveView_on_select_delete(i, actor, quote_id) ==
    /\ i \in 1..Len(views)
    /\ views[i].kind = "remove"
    /\ views[i].state = "active"
    /\ check_user(views[i], actor)
    /\ LET kept == DeleteQuote(quotes, quote_id, views[i].guild_id)
       IN  /\ quotes' = kept
           /\ quote_votes' = IF kept = quotes THEN quote_votes
                             ELSE CascadeVotes(quote_votes, quote_id)
           /\ handlers' = Spawn(handlers,
                 [pc |-> "respond", view |-> i, user_id |-> actor,
                  quote_id |-> quote_id, result |-> DeleteTag(quotes, kept)])
    /\ UNCHANGED <<pool, nextId, permissions, views, modals, messages,
                   modlog, last>>

\* The second step is the rest of the coroutine: the notice, the new rows of
\* the session and the edit of its message.
RemoveView_on_select_respond(c) ==
    /\ BagIn(c, handlers)
    /\ c.pc = "respond"
    /\ handlers' = Finish(handlers, c)
    /\ LET v      == views[c.view]
           rows2  == RowsWithout(v.rows, c.quote_id)
           pages2 == total_pages_of(rows2)
       IN  IF c.result = "DELETE 0"
           THEN /\ views' = views
                /\ last' = Answer("select", c.user_id, v.guild_id, c.quote_id,
                                  "not_found_or_deleted")
           ELSE /\ views' = [views EXCEPT ![c.view] =
                      LET v2 == [v EXCEPT !.rows = rows2,
                                          !.total_pages = pages2,
                                          !.page = ClampPage(v.page, pages2)]
                      IN  IF rows2 = << >>
                          THEN [v2 EXCEPT !.state = "all_removed",
                                          !.attached = FALSE]
                          ELSE update_view(v2)]
                /\ last' = Answer("select", c.user_id, v.guild_id, c.quote_id,
                                  "removed")
    /\ UNCHANGED <<pool, quotes, nextId, quote_votes, permissions, modals,
                   messages, modlog, steps>>

(***************************************************************************)
(* Storage failures.  A statement sent to the pool may raise (connection   *)
(* lost, server error) although bot.pool is set.  What the user sees then  *)
(* depends on whether the call sits inside the handler's                   *)
(* "try: ... except Exception": if it does the handler prints the error    *)
(* and sends its failure notice, otherwise the exception leaves the        *)
(* handler.  The failed statement has written nothing.                     *)
(***************************************************************************)
Commands ==
    {"add_quote", "random_quote", "edit_quote", "remove_quote", "find_quote",
     "grant_perm", "revoke_perm", "list_perms", "check_perms",
     "untimeout", "nickname"}

\* the commands whose storage calls are all inside their try block
\* (grant_perm has none, but its one storage call is grant_permission, which
\* catches the exception itself: see grant_perm_InsertFails)
TryCovers(op) ==
    op \in {"add_quote", "random_quote", "edit_quote", "remove_quote",
            "find_quote", "list_perms", "check_perms"}

\* command op called by actor in guild g gets as far as a storage call: the
\* decorators pass, grant/revoke/list are called by an admin, and the /mod
\* commands by a non-admin (is_admin short-circuits has_permission)
ReachesStorage(op, actor, g) ==
    /\ Guard(g) = ""
    /\ op \in {"grant_perm", "revoke_perm", "list_perms"} => is_admin(actor)
    /\ op \in {"untimeout", "nickname"} => ~is_admin(actor)

Outcome(covered) == IF covered THEN "failed" ELSE "exception_escaped"

\* a command whose first storage call raises
CommandStorageFailure(op, actor, g) ==
    /\ op # "grant_perm"
    /\ ReachesStorage(op, actor, g)
    /\ last' = Answer(op, actor, g, 0, Outcome(TryCovers(op)))
    /\ UNCHANGED <<pool, quotes, nextId, quote_votes, permissions, views,
                   modals, messages, handlers, modlog>>

\* grant_perm with the INSERT raising: grant_permission catches the exception
\* and returns False, grant_perm does not look at the value and sends
\* "Granted ..."
grant_perm_InsertFails(actor, g, user, permission) ==
    /\ ReachesStorage("grant_perm", actor, g)
    /\ last' = Answer("grant_perm", actor, g, <<user, permission>>, "granted")
    /\ UNCHANGED <<pool, quotes, nextId, quote_votes, permissions, views,
                   modals, messages, handlers, modlog>>

\* RemoveView.on_select (the DELETE, inside try) or FindView.on_select
\* (get_quote_score, outside any try) raising; EditView.on_select makes no
\* storage call
SelectStorageFailure(i, actor, quote_id) ==
    /\ i \in 1..Len(views)
    /\ views[i].kind \in {"remove", "find"}
    /\ views[i].state = "active"
    /\ check_user(views[i], actor)
    /\ views[i].kind = "find" => quote_id \in RowIds(views[i].rows)
    /\ last' = Answer("select", actor, views[i].guild_id, quote_id,
                      Outcome(views[i].kind = "remove"))
    /\ UNCHANGED <<pool, quotes, nextId, quote_votes, permissions, views,
                   modals, messages, handlers, modlog>>

\* EditQuoteModal.on_submit with the UPDATE raising (inside try)
SubmitStorageFailure(j) ==
    /\ j \in 1..Len(modals)
    /\ modals' = SubSeq(modals, 1, j - 1) \o SubSeq(modals, j + 1, Len(modals))
    /\ last' = Answer("edit_submit", modals[j].user_id, modals[j].guild_id, 0,
                      Outcome(TRUE))
    /\ UNCHANGED <<pool, quotes, nextId, quote_votes, permissions, views,
                   messages, handlers, modlog>>

(***************************************************************************)
(* database.py / bot.py: startup.  setup_hook awaits create_pool, which    *)
(* tries to connect up to max_retries times.  While create_pool runs, last *)
(* holds its position: arg is <<attempt, waited>>, the loop variable and   *)
(* the seconds slept so far, and result is where it stands: "called",      *)
(* "connecting" (in asyncpg.create_pool), "sleeping" (in asyncio.sleep),   *)
(* "none_unset" (line 10), "pool" (line 16) or "none" (line 25).  An       *)
(* attempt is taken to return or to raise.                                 *)
(***************************************************************************)
\* self.pool = None; setup_hook has just called create_pool()
InitBoot ==
    /\ pool = FALSE
    /\ quotes = {}
    /\ nextId = 1
    /\ quote_votes = {}
    /\ permissions = {}
    /\ views = << >>
    /\ modals = << >>
    /\ messages = << >>
    /\ handlers = EmptyBag
    /\ steps = 0
    /\ modlog = {}
    /\ last = Answer("create_pool", 0, 0, <<0, 0>>, "called")

\* if not DATABASE_URL: return None
create_pool_unset ==
    /\ (last.op = "create_pool" /\ last.result = "called")
    /\ last' = Answer("create_pool", 0, 0, <<0, 0>>, "none_unset")
    /\ UNCHANGED <<pool, quotes, nextId, quote_votes, permissions, views,
                   modals, messages, handlers, steps, modlog>>

\* DATABASE_URL is set: for attempt in range(max_retries), first round
create_pool_loop ==
    /\ (last.op = "create_pool" /\ last.result = "called")
    /\ max_retries > 0
    /\ last' = Answer("create_pool", 0, 0, <<0, 0>>, "connecting")
    /\ UNCHANGED <<pool, quotes, nextId, quote_votes, permissions, views,
                   modals, messages, handlers, steps, modlog>>

\* pool = await asyncpg.create_pool(DATABASE_URL); return pool
create_pool_connected ==
    /\ (last.op = "create_pool" /\ last.result = "connecting")
    /\ last' = Answer("create_pool", 0, 0, <<last.arg[1], last.arg[2]>>, "pool")
    /\ UNCHANGED <<pool, quotes, nextId, quote_votes, permissions, views,
                   modals, messages, handlers, steps, modlog>>

\* variant: the delay is slept after the last attempt as well
create_pool_refused_SleepsLast ==
    /\ (last.op = "create_pool" /\ last.result = "connecting")
    /\ last' = IF last.arg[1] < max_retries - 1
               THEN Answer("create_pool", 0, 0, <<last.arg[1], last.arg[2]>>, "sleeping")
               ELSE Answer("create_pool", 0, 0,
                           <<last.arg[1], last.arg[2] + retry_delay>>, "none")
    /\ UNCHANGED <<pool, quotes, nextId, quote_votes, permissions, views,
                   modals, messages, handlers, steps, modlog>>

\* except Exception: sleep if attempt < max_retries - 1, else the loop is
\* over and create_pool returns None
create_pool_refused ==
    /\ (last.op = "create_pool" /\ last.result = "connecting")
    /\ last' = IF last.arg[1] < max_retries - 1
               THEN Answer("create_pool", 0, 0, <<last.arg[1], last.arg[2]>>, "sleeping")
               ELSE Answer("create_pool", 0, 0, <<last.arg[1], last.arg[2]>>, "none")
    /\ UNCHANGED <<pool, quotes, nextId, quote_votes, permissions, views,
                   modals, messages, handlers, steps, modlog>>

\* await asyncio.sleep(retry_delay) returns; next round of the loop
create_pool_slept ==
    /\ (last.op = "create_pool" /\ last.result = "sleeping")
    /\ last' = Answer("create_pool", 0, 0,
                      <<last.arg[1] + 1, last.arg[2] + retry_delay>>, "connecting")
    /\ UNCHANGED <<pool, quotes, nextId, quote_votes, permissions, views,
                   modals, messages, handlers, steps, modlog>>

\* setup_hook after create_pool returned: self.pool is set, the tables are
\* set up if there is a pool, the commands are registered and synced
setup_hook ==
    /\ \/ (last.op = "create_pool" /\ last.result = "pool")
       \/ (last.op = "create_pool" /\ last.result = "none")
       \/ (last.op = "create_pool" /\ last.result = "none_unset")
    /\ pool' = (last.op = "create_pool" /\ last.result = "pool")
    /\ last' = Answer("setup_hook", 0, 0, last.arg, "started")
    /\ UNCHANGED <<quotes, nextId, quote_votes, permissions, views, modals,
                   messages, handlers, steps, modlog>>

(***************************************************************************)
(* Initial states.  Init is the bot right after setup_hook with an empty   *)
(* database.  InitGranted starts from the grant table an admin has set up  *)
(* with /quote permissions grant: the admin edits and removes every quote, *)
(* every other user only their own.                                        *)
(***************************************************************************)
InitWith(grants) ==
    /\ pool = TRUE
    /\ quotes = {}
    /\ nextId = 1
    /\ quote_votes = {}
    /\ permissions = grants
    /\ views = << >>
    /\ modals = << >>
    /\ messages = << >>
    /\ handlers = EmptyBag
    /\ steps = 0
    /\ modlog = {}
    /\ last = Answer("start", 0, 0, 0, "")

Init == InitWith({})

GrantRow(g, u, p) ==
    [guild_id |-> g, user_id |-> u, permission |-> p, granted_by |-> 1]

SetUpGrants ==
    {GrantRow(g, u, p) : g \in Guilds, u \in ADMIN_IDS, p \in {EDIT_ALL, REMOVE_ALL}}
    \cup
    {GrantRow(g, u, p) : g \in Guilds, u \in Users \ ADMIN_IDS,
                         p \in {EDIT_OWN, REMOVE_OWN}}

InitGranted == InitWith(SetUpGrants)

(***************************************************************************)
(* The quote store: add, edit and remove.                                  *)
(***************************************************************************)
Texts    == {<<"h", "i">>, <<"H", "i">>}
Authors  == {None, <<"b">>}

\* one more user operation of a run bounded by n of them
Tick(n) == steps < n /\ steps' = steps + 1

NextStore ==
    \/ \E u \in Users, g \in Guilds, t \in Texts :
           Tick(StoreSteps) /\ add_quote(u, g, t, None, None)
    \/ \E u \in Users, g \in Guilds :
           Tick(StoreSteps) /\ edit_quote(u, g, None, None)
    \/ \E u \in Users, g \in Guilds :
           Tick(StoreSteps) /\ remove_quote(u, g, None, None, None)
    \/ \E i \in 1..Len(views), actor \in Users :
           \E id \in views[i].children.options :
               Tick(StoreSteps) /\ EditView_on_select(i, actor, id)
    \/ \E j \in 1..Len(modals), t \in Texts, a \in Authors :
           Tick(StoreSteps) /\ EditQuoteModal_on_submit(j, t, a, None)
    \/ \E i \in 1..Len(views), actor \in Users :
           \E id \in views[i].children.options :
               Tick(StoreSteps) /\ RemoveView_on_select(i, actor, id)

SpecStore == InitGranted /\ [][NextStore]_vars

(***************************************************************************)
(* Claims on the quote store.                                              *)
(***************************************************************************)
QuotesOf(rows, g, t) == {r \in rows : r.guild_id = g /\ r.quote_text = t}

RemoveAt(seq, j) == SubSeq(seq, 1, j - 1) \o SubSeq(seq, j + 1, Len(seq))

\* C1: every /quote add of text t in guild g that reaches the INSERT leaves
\* exactly one stored quote with (g, t); when such a quote was already stored
\* (the second of two adds) the command answers "already exists" and writes
\* nothing, otherwise it answers "added".
C1_AddTwiceConflicts ==
    [][ (last'.op = "add_quote" /\ nextId' # nextId) =>
            LET before == QuotesOf(quotes, last'.guild, last'.arg)
                after  == QuotesOf(quotes', last'.guild, last'.arg)
            IN  /\ Cardinality(after) = 1
                /\ before # {} => /\ last'.result = "already_exists"
                                  /\ quotes' = quotes
                                  /\ quote_votes' = quote_votes
                /\ before = {} => last'.result = "added"
      ]_vars

\* C1 witness: a second add of the same text in the same guild, by another
\* actor than the one who stored it, was answered "already exists".
C1_Witness ==
    /\ last.op = "add_quote"
    /\ last.result = "already_exists"
    /\ \E r \in QuotesOf(quotes, last.guild, last.arg) : r.added_by_id # last.user
    /\ Cardinality(QuotesOf(quotes, last.guild, last.arg)) = 1

\* C2: no two stored quotes ever share (guild_id, quote_text), and a modal
\* submit that would give an existing quote the text of another stored quote
\* of the same guild is rejected and leaves the table unchanged.
C2_UniquePerGuild ==
    [][ /\ \A r1, r2 \in quotes' :
              (r1.guild_id = r2.guild_id /\ r1.quote_text = r2.quote_text)
                  => r1 = r2
        /\ \A j \in 1..Len(modals) :
              ( /\ last'.op = "edit_submit"
                /\ modals' = RemoveAt(modals, j)
                /\ \E r \in quotes : /\ r.id = modals[j].quote.id
                                     /\ r.guild_id = modals[j].guild_id
                /\ \E o \in quotes : /\ o.id # modals[j].quote.id
                                     /\ o.guild_id = modals[j].guild_id
                                     /\ o.quote_text = last'.arg )
                  => (quotes' = quotes /\ last'.result = "update_failed")
      ]_vars

\* C2 witness: an edit was rejected while two quotes of its guild are stored,
\* one of them holding the submitted text.
C2_Witness ==
    /\ last.op = "edit_submit"
    /\ last.result = "update_failed"
    /\ \E r1, r2 \in quotes :
          /\ r1.id # r2.id
          /\ r1.guild_id = last.guild /\ r2.guild_id = last.guild
          /\ r1.quote_text = last.arg /\ r2.quote_text # last.arg

(***************************************************************************)
(* The reaction bridge: one quote, posted once with score 0, and voters    *)
(* adding and removing the two vote emojis.                                *)
(***************************************************************************)
FirstQuote == QuoteRow(1, 1, None, <<"h", "i">>, None, 1)

InitPosted ==
    /\ pool = TRUE
    /\ quotes = {FirstQuote}
    /\ nextId = 2
    /\ quote_votes = {}
    /\ permissions = {}
    /\ views = << >>
    /\ modals = << >>
    /\ messages = <<PostedMessage(FirstQuote, 0)>>
    /\ handlers = EmptyBag
    /\ steps = 0
    /\ modlog = {}
    /\ last = Answer("random_quote", 1, 1, 0, "posted")

NextVotes ==
    \/ \E u \in Users, e \in {UP, DOWN} :
           Tick(VoteEvents) /\ ReactionAdd(u, 1, e)
    \/ \E u \in Users, e \in {UP, DOWN} :
           Tick(VoteEvents) /\ ReactionRemove(u, 1, e)
    \/ \E h \in BagToSet(handlers) : Handler_fetch(h)
    \/ \E h \in BagToSet(handlers) : Handler_db(h)
    \/ \E h \in BagToSet(handlers) : Handler_unreact(h)
    \/ \E h \in BagToSet(handlers) : Handler_score(h)
    \/ \E h \in BagToSet(handlers) : Handler_edit(h)

SpecVotes == InitPosted /\ [][NextVotes]_vars

(***************************************************************************)
(* A voter flips a stored vote: user 1 has voted up and user 2 down on the *)
(* posted quote, their coroutines have ended, and each may now add the     *)
(* opposite emoji and may remove the old one themselves.                   *)
(***************************************************************************)
FirstEmoji(u) == IF u % 2 = 1 THEN UP ELSE DOWN

InitVoted ==
    /\ pool = TRUE
    /\ quotes = {FirstQuote}
    /\ nextId = 2
    /\ quote_votes = {VoteRow(1, u, VoteVal(FirstEmoji(u))) : u \in Users}
    /\ permissions = {}
    /\ views = << >>
    /\ modals = << >>
    /\ messages = <<[PostedMessage(FirstQuote,
                                   get_quote_score(quote_votes, 1))
                       EXCEPT !.reactions =
                           @ \cup {<<u, FirstEmoji(u)>> : u \in Users}]>>
    /\ handlers = EmptyBag
    /\ steps = 0
    /\ modlog = {}
    /\ last = Answer("random_quote", 1, 1, 0, "posted")

NextFlip ==
    \/ \E u \in Users : /\ ReactionAdd(u, 1, Opposite(FirstEmoji(u)))
                         /\ UNCHANGED steps
    \/ \E u \in Users : /\ ReactionRemove(u, 1, FirstEmoji(u))
                         /\ UNCHANGED steps
    \/ \E h \in BagToSet(handlers) : Handler_fetch(h)
    \/ \E h \in BagToSet(handlers) : Handler_db(h)
    \/ \E h \in BagToSet(handlers) : Handler_unreact(h)
    \/ \E h \in BagToSet(handlers) : Handler_score(h)
    \/ \E h \in BagToSet(handlers) : Handler_edit(h)

SpecFlip == InitVoted /\ [][NextFlip]_vars

(***************************************************************************)
(* Paging: guild 1 holds three pages of quotes, all added by user 1, who   *)
(* holds EDIT_ALL and REMOVE_ALL.  Users open sessions, page, select and   *)
(* let sessions time out.  A click may reach the bot from a rendering the  *)
(* client has not refreshed yet, so a disabled button can still be "hit".  *)
(***************************************************************************)
SeededQuotes == 2 * items_per_page + 1

InitPaged ==
    /\ pool = TRUE
    /\ quotes = {QuoteRow(n, 1, None, NatToStr(n), None, 1) : n \in 1..SeededQuotes}
    /\ nextId = SeededQuotes + 1
    /\ quote_votes = {}
    /\ permissions = SetUpGrants
    /\ views = << >>
    /\ modals = << >>
    /\ messages = << >>
    /\ handlers = EmptyBag
    /\ steps = 0
    /\ modlog = {}
    /\ last = Answer("add_quote", 1, 1, NatToStr(SeededQuotes), "added")

\* the first and the last option of a select menu
FirstLast(ids) ==
    {n \in ids : (\A m \in ids : m <= n) \/ (\A m \in ids : m >= n)}

NextPages ==
    \/ \E u \in Users : Tick(PageSteps) /\ edit_quote(u, 1, None, None)
    \/ \E u \in Users : Tick(PageSteps) /\ remove_quote(u, 1, None, None, None)
    \/ \E i \in 1..Len(views), actor \in Users :
           /\ views[i].children.prev # "none"
           /\ Tick(PageSteps) /\ PaginatedView_prev_callback(i, actor)
    \/ \E i \in 1..Len(views), actor \in Users :
           /\ views[i].children.next # "none"
           /\ Tick(PageSteps) /\ PaginatedView_next_callback(i, actor)
    \/ \E i \in 1..Len(views), actor \in Users :
           \E id \in FirstLast(views[i].children.options) :
               Tick(PageSteps) /\ EditView_on_select(i, actor, id)
    \/ \E i \in 1..Len(views), actor \in Users :
           \E id \in FirstLast(views[i].children.options) :
               Tick(PageSteps) /\ RemoveView_on_select(i, actor, id)
    \/ \E i \in 1..Len(views) : PaginatedView_on_timeout(i)

SpecPages == InitPaged /\ [][NextPages]_vars

(***************************************************************************)
(* Sessions racing on a small store: guild 1 holds the quote of user 1,    *)
(* guild 2 one of user 2, both posted and voted on.  Sessions are opened   *)
(* in both guilds; a selection carries whatever quote id the interaction   *)
(* holds, also one the session never listed.                               *)
(***************************************************************************)
SecondQuote == QuoteRow(2, 2, None, <<"y", "o">>, None, 2)

InitRace ==
    /\ pool = TRUE
    /\ quotes = {FirstQuote, SecondQuote}
    /\ nextId = 3
    /\ quote_votes = {VoteRow(1, 2, -1), VoteRow(2, 1, 1)}
    /\ permissions = SetUpGrants
    /\ views = << >>
    /\ modals = << >>
    /\ messages =
          <<[PostedMessage(FirstQuote, get_quote_score(quote_votes, 1))
                EXCEPT !.reactions = @ \cup {<<2, DOWN>>}],
            [PostedMessage(SecondQuote, get_quote_score(quote_votes, 2))
                EXCEPT !.reactions = @ \cup {<<1, UP>>}]>>
    /\ handlers = EmptyBag
    /\ steps = 0
    /\ modlog = {}
    /\ last = Answer("random_quote", 1, 2, 0, "posted")

NextRace ==
    \/ \E u \in Users, g \in Guilds :
           Tick(RaceSteps) /\ edit_quote(u, g, None, None)
    \/ \E u \in Users, g \in Guilds :
           Tick(RaceSteps) /\ remove_quote(u, g, None, None, None)
    \/ \E i \in 1..Len(views), id \in 1..(nextId - 1) :
           Tick(RaceSteps) /\ EditView_on_select(i, views[i].user_id, id)
    \/ \E i \in 1..Len(views), id \in 1..(nextId - 1) :
           Tick(RaceSteps) /\ RemoveView_on_select(i, views[i].user_id, id)
    \/ \E j \in 1..Len(modals) :
           Tick(RaceSteps) /\ EditQuoteModal_on_submit(j, <<"y", "o">>, None, None)

SpecRace == InitRace /\ [][NextRace]_vars

(***************************************************************************)
(* Votes against removals: the store of InitRace, where users keep voting  *)
(* on the posted message of guild 1's quote while sessions remove it.  The *)
(* posted message stays in the channel after the quote is gone.  A voter   *)
(* reacts when the coroutines of the reaction before have ended; commands  *)
(* and selections interleave with the coroutines at every await.           *)
(***************************************************************************)
NextOrphan ==
    \/ \E u \in Users :
           Tick(OrphanSteps) /\ remove_quote(u, 1, None, None, None)
    \/ \E i \in 1..Len(views) : \E id \in views[i].children.options :
           Tick(OrphanSteps) /\ RemoveView_on_select(i, views[i].user_id, id)
    \/ \E u \in Users, e \in {UP, DOWN} :
           /\ handlers = EmptyBag
           /\ Tick(OrphanSteps) /\ ReactionAdd(u, 1, e)
    \/ \E h \in BagToSet(handlers) : Handler_fetch(h)
    \/ \E h \in BagToSet(handlers) : Handler_db(h)
    \/ \E h \in BagToSet(handlers) : Handler_unreact(h)
    \/ \E h \in BagToSet(handlers) : Handler_score(h)
    \/ \E h \in BagToSet(handlers) : Handler_edit(h)

SpecOrphan == InitRace /\ [][NextOrphan]_vars

(***************************************************************************)
(* Reactions the bridge must ignore.  The channel holds the posted quote,  *)
(* a copy of it sent by another account, and a message of the bot account  *)
(* whose embed footer names no quote.  The commands of this revision send  *)
(* every embed but the quote ephemerally, so the third message stands for  *)
(* what else the bot account has written to the channel; its footer is the *)
(* text of the help embed.  Users and the bot itself react with the vote   *)
(* emojis and with another emoji, also on a message that is deleted before *)
(* the coroutine fetches it.                                               *)
(***************************************************************************)
\* embed.set_footer(text="Use /command to run a command")
HelpFooter ==
    <<"U", "s", "e", " ", "/", "c", "o", "m", "m", "a", "n", "d", " ",
       "t", "o", " ", "r", "u", "n", " ", "a", " ", "c", "o", "m", "m",
       "a", "n", "d">>

InitChannel ==
    /\ pool = TRUE
    /\ quotes = {FirstQuote}
    /\ nextId = 2
    /\ quote_votes = {}
    /\ permissions = {}
    /\ views = << >>
    /\ modals = << >>
    /\ messages = <<PostedMessage(FirstQuote, 0),
                    [PostedMessage(FirstQuote, 0) EXCEPT !.author = 2,
                                                         !.reactions = {}],
                    [author |-> BotId, footer |-> HelpFooter, reactions |-> {}]>>
    /\ handlers = EmptyBag
    /\ steps = 0
    /\ modlog = {}
    /\ last = Answer("random_quote", 1, 1, 0, "posted")

Reactors == Users \cup {BotId}
Emojis   == {UP, DOWN, OTHER_EMOJI}

NextIgnore ==
    \/ \E u \in Reactors, m \in 1..Len(messages), e \in Emojis :
           Tick(IgnoreEvents) /\ ReactionAdd(u, m, e)
    \/ \E u \in Reactors, m \in 1..Len(messages), e \in Emojis :
           Tick(IgnoreEvents) /\ ReactionRemove(u, m, e)
    \/ \E u \in Reactors, e \in Emojis :
           Tick(IgnoreEvents) /\ ReactionAddUnresolved(u, e)
    \/ \E h \in BagToSet(handlers) : Handler_fetch(h)
    \/ \E h \in BagToSet(handlers) : Handler_db(h)
    \/ \E h \in BagToSet(handlers) : Handler_unreact(h)
    \/ \E h \in BagToSet(handlers) : Handler_score(h)
    \/ \E h \in BagToSet(handlers) : Handler_edit(h)

SpecIgnore == InitChannel /\ [][NextIgnore]_vars

(***************************************************************************)
(* The footer as a text: create_quote_embed renders it and the bridge      *)
(* parses and rewrites it.  The rendering inputs are drawn from small sets *)
(* (scores of one and two digits of both signs, ids of one to three        *)
(* digits, display names as members choose them); one coroutine is about   *)
(* to fetch the posted message and another is about to write new_score.    *)
(***************************************************************************)
FooterScores == {-12, -1, 0, 1, 12}
FooterIds    == {1, 12, 305}

\* member.display_name is free text of the member's choosing; the fallback
\* label is f"User {user_id}"
DisplayNames == {<<"A", "n", "n">>, <<"[", "7", "]">>,
                 <<"U", "s", "e", "r", " ">> \o NatToStr(3)}

\* utils.format_date: the strftime text, or the text for a value without one
FooterDates == {format_date(1),
                <<"U", "n", "k", "n", "o", "w", "n", " ", "d", "a", "t", "e">>}

InitFooter ==
    \E s \in FooterScores, s2 \in FooterScores, i \in FooterIds,
       n \in DisplayNames, d \in FooterDates :
        LET text == FooterText(s, d, n, i)
        IN  /\ pool = TRUE
            /\ quotes = {QuoteRow(i, 1, None, <<"h", "i">>, None, 1)}
            /\ nextId = i + 1
            /\ quote_votes = {}
            /\ permissions = {}
            /\ views = << >>
            /\ modals = << >>
            /\ messages = <<[author |-> BotId, footer |-> text,
                             reactions |-> {<<BotId, UP>>, <<BotId, DOWN>>,
                                            <<1, UP>>, <<2, DOWN>>}]>>
            /\ handlers = SetToBag({NewHandler(1, 1, UP, TRUE),
                                    [NewHandler(2, 1, DOWN, TRUE)
                                        EXCEPT !.pc = "edit", !.footer = text,
                                               !.quote_id = i, !.new_score = s2]})
            /\ steps = 0
            /\ modlog = {}
            /\ last = Answer("create_quote_embed", 1, 1, <<s, d, n, i, s2>>, text)

NextFooter ==
    \/ \E h \in BagToSet(handlers) : Handler_fetch(h)
    \/ \E h \in BagToSet(handlers) : Handler_edit(h)

SpecFooter == InitFooter /\ [][NextFooter]_vars

(***************************************************************************)
(* Filters: a store of four quotes whose texts, authors and contexts share *)
(* letters across fields and differ in case, with the grants of            *)
(* SetUpGrants; one command is run with every choice of filters, among     *)
(* them a term that is a LIKE wildcard.                                    *)
(***************************************************************************)
Terms == {None, <<"h">>, <<"A", "B">>, <<"_">>}

InitFind ==
    /\ pool = TRUE
    /\ quotes = {QuoteRow(1, 1, <<"A", "b">>, <<"H", "i">>, None, 1),
                 QuoteRow(2, 1, None, <<"a", "b">>, <<"h", "i">>, 2),
                 QuoteRow(3, 1, <<"B", "i">>, <<"a", "h">>, <<"A", "b">>, 1),
                 QuoteRow(4, 2, <<"A", "b">>, <<"H", "i">>, None, 2)}
    /\ nextId = 5
    /\ quote_votes = {}
    /\ permissions = SetUpGrants
    /\ views = << >>
    /\ modals = << >>
    /\ messages = << >>
    /\ handlers = EmptyBag
    /\ steps = 0
    /\ modlog = {}
    /\ last = Answer("start", 0, 0, 0, "")

NextFind ==
    \/ \E u \in Users, g \in Guilds, s \in Terms, a \in Terms, c \in Terms :
           Tick(FindSteps) /\ find_quote(u, g, s, a, c)
    \/ \E u \in Users, g \in Guilds, s \in Terms, a \in Terms, c \in Terms :
           Tick(FindSteps) /\ remove_quote(u, g, s, a, c)
    \/ \E u \in Users, g \in Guilds, s \in Terms, a \in Terms :
           Tick(FindSteps) /\ edit_quote(u, g, s, a)

SpecFind == InitFind /\ [][NextFind]_vars

(***************************************************************************)
(* Failing storage: the store of InitRace; users open sessions in guild 1  *)
(* and any handler's storage call may raise.                               *)
(***************************************************************************)
NextFail ==
    \/ \E u \in Users :
           Tick(FailSteps) /\ remove_quote(u, 1, None, None, None)
    \/ \E u \in Users :
           Tick(FailSteps) /\ edit_quote(u, 1, None, None)
    \/ \E u \in Users :
           Tick(FailSteps) /\ find_quote(u, 1, <<"h">>, None, None)
    \/ \E i \in 1..Len(views) : \E id \in views[i].children.options :
           Tick(FailSteps) /\ EditView_on_select(i, views[i].user_id, id)
    \/ \E op \in Commands, a \in Users, g \in Guilds :
           Tick(FailSteps) /\ CommandStorageFailure(op, a, g)
    \/ \E a \in Users, g \in Guilds, u \in Users, p \in ALL_PERMISSIONS :
           Tick(FailSteps) /\ grant_perm_InsertFails(a, g, u, p)
    \/ \E i \in 1..Len(views) : \E id \in views[i].children.options :
           Tick(FailSteps) /\ SelectStorageFailure(i, views[i].user_id, id)
    \/ \E j \in 1..Len(modals) :
           Tick(FailSteps) /\ SubmitStorageFailure(j)

SpecFail == InitRace /\ [][NextFail]_vars

(***************************************************************************)
(* Shown scores: guild 1's quote has been posted twice and has no vote     *)
(* yet.  Users react on either message and the coroutines interleave at    *)
(* every await.  In SpecEditFail they react on the first message and an    *)
(* edit of it may fail.                                                    *)
(***************************************************************************)
InitShown ==
    /\ pool = TRUE
    /\ quotes = {FirstQuote}
    /\ nextId = 2
    /\ quote_votes = {}
    /\ permissions = {}
    /\ views = << >>
    /\ modals = << >>
    /\ messages = <<PostedMessage(FirstQuote, 0), PostedMessage(FirstQuote, 0)>>
    /\ handlers = EmptyBag
    /\ steps = 0
    /\ modlog = {}
    /\ last = Answer("random_quote", 1, 1, 0, "posted")

NextShown ==
    \/ \E u \in Users, m \in 1..2, e \in {UP, DOWN} :
           Tick(ShownEvents) /\ ReactionAdd(u, m, e)
    \/ \E u \in Users, m \in 1..2, e \in {UP, DOWN} :
           Tick(ShownEvents) /\ ReactionRemove(u, m, e)
    \/ \E h \in BagToSet(handlers) : Handler_fetch(h)
    \/ \E h \in BagToSet(handlers) : Handler_db(h)
    \/ \E h \in BagToSet(handlers) : Handler_unreact(h)
    \/ \E h \in BagToSet(handlers) : Handler_score(h)
    \/ \E h \in BagToSet(handlers) : Handler_edit(h)

SpecShown == InitShown /\ [][NextShown]_vars

NextEditFail ==
    \/ \E u \in Users, e \in {UP, DOWN} :
           Tick(EditFailEvents) /\ ReactionAdd(u, 1, e)
    \/ \E u \in Users, e \in {UP, DOWN} :
           Tick(EditFailEvents) /\ ReactionRemove(u, 1, e)
    \/ \E h \in BagToSet(handlers) : Handler_fetch(h)
    \/ \E h \in BagToSet(handlers) : Handler_db(h)
    \/ \E h \in BagToSet(handlers) : Handler_unreact(h)
    \/ \E h \in BagToSet(handlers) : Handler_score(h)
    \/ \E h \in BagToSet(handlers) : Handler_edit(h)
    \/ \E h \in BagToSet(handlers) : Handler_edit_fails(h)

SpecEditFail == InitShown /\ [][NextEditFail]_vars

(***************************************************************************)
(* Revoked rights: the store and the grants of InitRace; users open edit   *)
(* and remove sessions in guild 2 and use them while the admin revokes     *)
(* grants of that guild.                                                   *)
(***************************************************************************)
NextRevoke ==
    \/ \E u \in Users :
           Tick(RevokeSteps) /\ remove_quote(u, 2, None, None, None)
    \/ \E u \in Users :
           Tick(RevokeSteps) /\ edit_quote(u, 2, None, None)
    \/ \E u \in Users, p \in {EDIT_OWN, EDIT_ALL, REMOVE_OWN, REMOVE_ALL} :
           Tick(RevokeSteps) /\ revoke_perm(1, 2, u, p)
    \/ \E i \in 1..Len(views) : \E id \in views[i].children.options :
           Tick(RevokeSteps) /\ RemoveView_on_select(i, views[i].user_id, id)
    \/ \E i \in 1..Len(views) : \E id \in views[i].children.options :
           Tick(RevokeSteps) /\ EditView_on_select(i, views[i].user_id, id)
    \/ \E j \in 1..Len(modals) :
           Tick(RevokeSteps) /\ EditQuoteModal_on_submit(j, <<"h", "i">>, None, None)

SpecRevoke == InitRace /\ [][NextRevoke]_vars

(***************************************************************************)
(* Startup: the bot from the call of create_pool on; once it has started,  *)
(* users call the commands that need the database, in a guild and (add)    *)
(* in a direct message.  The event loop runs a coroutine that can take a   *)
(* step, so startup is weakly fair.                                        *)
(***************************************************************************)
NextBoot ==
    \/ create_pool_unset
    \/ create_pool_loop
    \/ create_pool_connected
    \/ create_pool_refused
    \/ create_pool_slept
    \/ setup_hook
    \/ \E u \in Users, g \in Guilds \cup {NoGuild} :
           last.op # "create_pool" /\ Tick(BootSteps) /\ add_quote(u, g, <<"h", "i">>, None, None)
    \/ \E u \in Users, g \in Guilds :
           last.op # "create_pool" /\ Tick(BootSteps) /\ find_quote(u, g, <<"h">>, None, None)
    \/ \E u \in Users, g \in Guilds :
           last.op # "create_pool" /\ Tick(BootSteps) /\ edit_quote(u, g, None, None)
    \/ \E u \in Users, g \in Guilds :
           last.op # "create_pool" /\ Tick(BootSteps) /\ remove_quote(u, g, None, None, None)
    \/ \E a \in Users, g \in Guilds :
           last.op # "create_pool" /\ Tick(BootSteps) /\ grant_perm(a, g, 2, REMOVE_OWN)
    \/ \E a \in Users, g \in Guilds :
           last.op # "create_pool" /\ Tick(BootSteps) /\ revoke_perm(a, g, 2, REMOVE_OWN)
    \/ \E a \in Users, g \in Guilds :
           last.op # "create_pool" /\ Tick(BootSteps) /\ list_perms(a, g)
    \/ \E a \in Users, g \in Guilds :
           last.op # "create_pool" /\ Tick(BootSteps) /\ untimeout_member(a, g, 2, FALSE)
    \/ \E a \in Users, g \in Guilds :
           last.op # "create_pool" /\ Tick(BootSteps) /\ change_nickname(a, g, 2, FALSE)

SpecBoot ==
    /\ InitBoot
    /\ [][NextBoot]_vars
    /\ WF_vars(\/ create_pool_unset
               \/ create_pool_loop
               \/ create_pool_connected
               \/ create_pool_refused
               \/ create_pool_slept
               \/ setup_hook)

(***************************************************************************)
(* Concurrent picks: the store of InitRace; users open remove sessions and *)
(* pick quotes from them, and the coroutines of the picks interleave at    *)
(* the await of the DELETE.                                                *)
(***************************************************************************)
NextPick ==
    \/ \E u \in Users, g \in Guilds :
           Tick(PickSteps) /\ remove_quote(u, g, None, None, None)
    \/ \E i \in 1..Len(views) : \E id \in views[i].children.options :
           Tick(PickSteps) /\ RemoveView_on_select_delete(i, views[i].user_id, id)
    \/ \E c \in BagToSet(handlers) : RemoveView_on_select_respond(c)

SpecPick == InitRace /\ [][NextPick]_vars

(***************************************************************************)
(* Grants: the grant table of SetUpGrants, on which grant and revoke are   *)
(* called with every choice of actor, guild, user and permission.          *)
(***************************************************************************)
NextGrants ==
    \/ \E a \in Users, g \in Guilds, u \in Users, p \in ALL_PERMISSIONS :
           Tick(GrantSteps) /\ grant_perm(a, g, u, p)
    \/ \E a \in Users, g \in Guilds, u \in Users, p \in ALL_PERMISSIONS :
           Tick(GrantSteps) /\ revoke_perm(a, g, u, p)

SpecGrants == InitGranted /\ [][NextGrants]_vars

(***************************************************************************)
(* Claims on the votes and the reaction bridge.                            *)
(***************************************************************************)
UpVotes(votes, q)   == {v \in VotesOf(votes, q) : v.vote = 1}
DownVotes(votes, q) == {v \in VotesOf(votes, q) : v.vote = -1}

ScoreRange == (0 - Cardinality(Users) - 1)..(Cardinality(Users) + 1)

\* C3: whenever a coroutine calls get_quote_score for quote q, the value it
\* gets is the number of up votes minus the number of down votes stored for
\* q at that moment (0 without votes), whatever the footers display.
C3_ScoreIsSumOfVotes ==
    [][ \A h \in BagToSet(handlers), n \in ScoreRange :
            ( /\ h.pc = "score"
              /\ handlers' = Advance(handlers, h,
                                 [h EXCEPT !.pc = "edit", !.new_score = n]) )
                => n = Cardinality(UpVotes(quote_votes, h.quote_id))
                       - Cardinality(DownVotes(quote_votes, h.quote_id))
      ]_vars

\* C3 witness: a coroutine holds the score -1 it just read from the stored
\* votes while the footer of its message still shows another value.
C3_Witness ==
    \E h \in BagToSet(handlers) :
        /\ h.pc = "edit"
        /\ h.new_score = -1
        /\ DownVotes(quote_votes, h.quote_id) # {}
        /\ h.new_score = SumVotes(VotesOf(quote_votes, h.quote_id))
        /\ messages[h.message_id].footer # RewriteFooter(h.footer, h.new_score)

\* C4: at most one vote row per (quote, voter), every value is +1 or -1, and
\* right after an accepted reaction-add stored its vote the voter's only row
\* holds the value of that reaction.
C4_OneVotePerVoter ==
    /\ \A v1, v2 \in quote_votes :
          (v1.quote_id = v2.quote_id /\ v1.user_id = v2.user_id) => v1 = v2
    /\ \A v \in quote_votes : v.vote \in {1, -1}
    /\ (last.op = "reaction_db" /\ last.result \in {"vote_stored", "vote_replaced"})
          => {v \in quote_votes : v.quote_id = last.arg[1] /\ v.user_id = last.user}
                = {VoteRow(last.arg[1], last.user, last.arg[2])}

\* C4 witness: a voter's second reaction overwrote their stored opposite vote.
C4_Witness ==
    /\ last.op = "reaction_db"
    /\ last.result = "vote_replaced"
    /\ VoteRow(last.arg[1], last.user, last.arg[2]) \in quote_votes
    /\ Cardinality({v \in quote_votes : v.user_id = last.user}) = 1

\* C5: when the coroutine of a reaction-remove runs its DELETE while the
\* voter's stored vote is not that emoji's value (the opposite one, or none),
\* no vote row changes, the coroutine ends there (updated stays False, so it
\* never reads the score nor edits a footer) and no message changes.
C5_MismatchedRetractIsNoOp ==
    [][ \A h \in BagToSet(handlers) :
            ( /\ h.pc = "db"
              /\ ~h.added
              /\ VoteRow(h.quote_id, h.user_id, VoteVal(h.emoji)) \notin quote_votes
              /\ last'.op = "reaction_db"
              /\ handlers' \in {Finish(handlers, h),
                                Advance(handlers, h, [h EXCEPT !.pc = "score"])} )
                => /\ quote_votes' = quote_votes
                   /\ handlers' = Finish(handlers, h)
                   /\ messages' = messages
                   /\ last'.result = "nothing_deleted"
      ]_vars

\* C5 witness: a removal was answered "nothing deleted" while the voter's
\* stored vote is the opposite value.
C5_Witness ==
    /\ last.op = "reaction_db"
    /\ last.result = "nothing_deleted"
    /\ VoteRow(last.arg[1], last.user, 0 - last.arg[2]) \in quote_votes

\* the coroutine of u's reaction-add has run its upsert
FlipStored(u) ==
    /\ <<u, Opposite(FirstEmoji(u))>> \in messages[1].reactions
    /\ \A h \in BagToSet(handlers) :
          (h.user_id = u /\ h.added) => h.pc \notin {"fetch", "db"}

\* C6: once the coroutine of the flipping reaction-add has stored the new
\* vote, the voter's stored vote is the new direction in every later state,
\* wherever the removal of the old emoji is handled.
C6_FlipSurvivesStaleRetract ==
    \A u \in Users :
        FlipStored(u) =>
            {v \in quote_votes : v.user_id = u}
                = {VoteRow(1, u, VoteVal(Opposite(FirstEmoji(u))))}

\* C6 witness: both events of user 1 are handled, the stale removal of the
\* old emoji deleted nothing, and the new vote is stored.
C6_Witness ==
    /\ handlers = EmptyBag
    /\ FlipStored(1)
    /\ last = Answer("reaction_db", 1, 0, <<1, VoteVal(FirstEmoji(1))>>,
                     "nothing_deleted")
    /\ VoteRow(1, 1, VoteVal(Opposite(FirstEmoji(1)))) \in quote_votes

(***************************************************************************)
(* Permissions: a fresh database with no grant rows; admins grant and      *)
(* revoke, users add quotes and call the commands that check rights.       *)
(***************************************************************************)
NextPerm ==
    \/ \E a \in Users, g \in Guilds, u \in Users, p \in ALL_PERMISSIONS :
           Tick(PermSteps) /\ grant_perm(a, g, u, p)
    \/ \E a \in Users, g \in Guilds, u \in Users, p \in ALL_PERMISSIONS :
           Tick(PermSteps) /\ revoke_perm(a, g, u, p)
    \/ \E a \in Users, g \in Guilds :
           Tick(PermSteps) /\ list_perms(a, g)
    \/ \E u \in Users, g \in Guilds :
           Tick(PermSteps) /\ add_quote(u, g, <<"h", "i">>, None, None)
    \/ \E u \in Users, g \in Guilds :
           Tick(PermSteps) /\ edit_quote(u, g, None, None)
    \/ \E u \in Users, g \in Guilds :
           Tick(PermSteps) /\ remove_quote(u, g, None, None, None)
    \/ \E a \in Users, g \in Guilds, m \in Users, f \in BOOLEAN :
           Tick(PermSteps) /\ untimeout_member(a, g, m, f)
    \/ \E a \in Users, g \in Guilds, m \in Users, f \in BOOLEAN :
           Tick(PermSteps) /\ change_nickname(a, g, m, f)

SpecPerm == Init /\ [][NextPerm]_vars

(***************************************************************************)
(* Claims on permissions.                                                  *)
(***************************************************************************)
Granted(g, u, p) ==
    \E r \in permissions : r.guild_id = g /\ r.user_id = u /\ r.permission = p

GrantsOf(g, u) == {r \in permissions : r.guild_id = g /\ r.user_id = u}

OwnQuoteIds(g, u) == {q.id : q \in {x \in quotes : x.guild_id = g /\ x.added_by_id = u}}

GuildQuoteIds(g) == {q.id : q \in {x \in quotes : x.guild_id = g}}

RightsAsClaimed(rights, g, u, own, all) ==
    /\ rights = <<TRUE, TRUE>> <=> Granted(g, u, all)
    /\ rights = <<TRUE, FALSE>> <=> (Granted(g, u, own) /\ ~Granted(g, u, all))
    /\ rights = <<FALSE, FALSE>> <=>
          (~Granted(g, u, own) /\ ~Granted(g, u, all) /\ u \notin ADMIN_IDS)

\* C7: for every guild g and user u, can_edit(g, u) is (true, true) iff
\* EDIT_ALL is granted, (true, false) iff EDIT_OWN is granted and EDIT_ALL is
\* not, and (false, false) iff neither is granted and u is not an admin;
\* can_remove likewise with REMOVE_ALL and REMOVE_OWN.
C7_RightsAsClaimed ==
    \A g \in Guilds, u \in Users :
        /\ RightsAsClaimed(can_edit(g, u), g, u, EDIT_OWN, EDIT_ALL)
        /\ RightsAsClaimed(can_remove(g, u), g, u, REMOVE_OWN, REMOVE_ALL)

CheckedOps ==
    {"edit_quote", "remove_quote", "untimeout", "nickname",
     "grant_perm", "revoke_perm", "list_perms"}

\* C8: a command that checks rights, called in a guild by an admin who holds
\* no grant rows, is never answered with a denial; /quote edit and /quote
\* remove then open their session over all the quotes of the guild.
C8_AdminPassesEveryCheck ==
    [][ ( /\ steps' # steps
          /\ last'.op \in CheckedOps
          /\ last'.user \in ADMIN_IDS
          /\ \A g \in Guilds : GrantsOf(g, last'.user) = {} )
            => /\ last'.result \notin {"no_permission", "admins_only"}
               /\ last'.result = "view_opened" =>
                     RowIds(views'[Len(views')].rows) = GuildQuoteIds(last'.guild)
      ]_vars

\* C9 as claimed, for the actors that are not admins: /quote edit or
\* /quote remove called by an actor with no grant rows in the guild, who
\* submitted quotes there, opens a session over exactly the actor's quotes.
C9_ImplicitOwnDefault ==
    [][ ( /\ steps' # steps
          /\ last'.op \in {"edit_quote", "remove_quote"}
          /\ last'.user \notin ADMIN_IDS
          /\ GrantsOf(last'.guild, last'.user) = {}
          /\ OwnQuoteIds(last'.guild, last'.user) # {} )
            => /\ last'.result = "view_opened"
               /\ Len(views') = Len(views) + 1
               /\ RowIds(views'[Len(views')].rows)
                      = OwnQuoteIds(last'.guild, last'.user)
      ]_vars

OwnGrant(op) == IF op = "edit_quote" THEN EDIT_OWN ELSE REMOVE_OWN
AllGrant(op) == IF op = "edit_quote" THEN EDIT_ALL ELSE REMOVE_ALL

\* C9 amended: /quote edit or /quote remove called by an actor who is not an
\* admin and has no grant rows in the guild is denied and opens no session,
\* whatever quotes the actor submitted; an actor who holds the OWN grant of
\* the command and not its ALL grant gets, when a session opens, a session
\* over exactly the quotes of the guild the actor submitted.
C9_NoGrantIsDenied ==
    [][ ( /\ steps' # steps
          /\ last'.op \in {"edit_quote", "remove_quote"}
          /\ last'.guild \in Guilds )
            => /\ ( /\ last'.user \notin ADMIN_IDS
                    /\ GrantsOf(last'.guild, last'.user) = {} )
                      => /\ last'.result = "no_permission"
                         /\ views' = views
               /\ ( /\ Granted(last'.guild, last'.user, OwnGrant(last'.op))
                    /\ ~Granted(last'.guild, last'.user, AllGrant(last'.op)) )
                      => /\ last'.result \in {"view_opened", "no_quotes"}
                         /\ last'.result = "view_opened" =>
                               /\ Len(views') = Len(views) + 1
                               /\ views'[Len(views')].user_id = last'.user
                               /\ RowIds(views'[Len(views')].rows)
                                      = OwnQuoteIds(last'.guild, last'.user)
                         /\ last'.result = "no_quotes" =>
                               OwnQuoteIds(last'.guild, last'.user) = {}
      ]_vars

\* C9 witness: an actor who is no admin, holds no grant in the guild and
\* submitted a quote there was just denied /quote edit.
C9_Witness ==
    /\ last.op = "edit_quote"
    /\ last.result = "no_permission"
    /\ last.user \notin ADMIN_IDS
    /\ GrantsOf(last.guild, last.user) = {}
    /\ OwnQuoteIds(last.guild, last.user) # {}
    /\ views = << >>

NeededGrant(action) == IF action = "untimeout" THEN UNTIMEOUT ELSE CHANGE_NICKNAME

\* C10: every moderation action /mod untimeout (/mod nickname) performs was
\* called by an actor who, when the command checked, was an admin or held
\* the UNTIMEOUT (CHANGE_NICKNAME) grant in that very guild.
C10_ModNeedsAdminOrGrant ==
    [][ \A e \in modlog' \ modlog :
            \/ e.actor \in ADMIN_IDS
            \/ \E r \in permissions :
                  /\ r.guild_id = e.guild
                  /\ r.user_id = e.actor
                  /\ r.permission = NeededGrant(e.action)
      ]_vars

\* C10 witness: an actor who is no admin lifted a member's timeout in a guild
\* where the actor holds the UNTIMEOUT grant, and was then denied the same
\* command in another guild, where the actor holds no grant.
C10_Witness ==
    /\ last.op = "untimeout"
    /\ last.result = "no_permission"
    /\ last.user \notin ADMIN_IDS
    /\ GrantsOf(last.guild, last.user) = {}
    /\ \E e \in modlog :
          /\ e.actor = last.user
          /\ e.action = "untimeout"
          /\ e.guild # last.guild
          /\ Granted(e.guild, e.actor, UNTIMEOUT)

(***************************************************************************)
(* Claims on selection sessions.                                           *)
(***************************************************************************)
ViewIds == 1..Len(views)

\* C11: in every view, after any prev, next and removal, 0 <= page <=
\* total_pages - 1 and, when rows is not empty, the page shown has a row;
\* a prev or next step moves the page of the view it changes by one, and
\* leaves it where it is at the first resp. last page.
C11_PageInRange ==
    [][ /\ \A i \in 1..Len(views') :
              LET v == views'[i]
              IN  /\ 0 <= v.page
                  /\ v.page <= v.total_pages - 1
                  /\ v.rows # << >> =>
                        /\ v.page * items_per_page < Len(v.rows)
                        /\ get_page_rows(v) # << >>
        /\ (steps' # steps /\ last'.op \in {"prev", "next"}) =>
              \A i \in ViewIds :
                  /\ views'[i].page - views[i].page \in {-1, 0, 1}
                  /\ last'.result = "page_shown" =>
                        \/ views'[i] = views[i]
                        \/ /\ last'.op = "prev"
                           /\ views[i].page > 0
                           /\ views'[i].page = views[i].page - 1
                        \/ /\ last'.op = "next"
                           /\ views[i].page < views[i].total_pages - 1
                           /\ views'[i].page = views[i].page + 1
      ]_vars

\* C11 witness: the only row of the last page was just removed and the view
\* shows the new last page, which is full.
C11_Witness ==
    /\ last.op = "select"
    /\ last.result = "removed"
    /\ \E i \in ViewIds :
          /\ views[i].state = "active"
          /\ last.arg \notin RowIds(views[i].rows)
          /\ Len(views[i].rows) = 2 * items_per_page
          /\ views[i].page = 1
          /\ views[i].total_pages = 2
          /\ Len(get_page_rows(views[i])) = items_per_page

\* C12: in every view with N rows, total_pages is the least number of pages
\* of 25 rows that hold N rows, and 1 when N = 0; at creation and after
\* every removal.
C12_TotalPages ==
    \A i \in ViewIds :
        LET N == Len(views[i].rows)
            P == views[i].total_pages
        IN  /\ P >= 1
            /\ N = 0 => P = 1
            /\ N > 0 => (P - 1) * 25 < N /\ N <= P * 25

\* C12 witness: a removal has brought a view of three pages down to two.
C12_Witness ==
    \E i \in ViewIds :
        /\ views[i].kind = "remove"
        /\ Len(views[i].rows) = SeededQuotes - 1
        /\ views[i].total_pages = 2
        /\ \E j \in ViewIds : views[j].total_pages = 3

\* C13: in every active view, with one page neither button is offered; with
\* more pages both are, prev disabled exactly on the first page and next
\* disabled exactly on the last one.
C13_ButtonsMatchPage ==
    \A i \in ViewIds :
        LET v == views[i]
        IN  v.state = "active" =>
              /\ v.attached
              /\ v.total_pages = 1 =>
                    v.children.prev = "none" /\ v.children.next = "none"
              /\ v.total_pages > 1 =>
                    /\ v.children.prev = IF v.page = 0 THEN "disabled" ELSE "enabled"
                    /\ v.children.next = IF v.page = v.total_pages - 1
                                         THEN "disabled" ELSE "enabled"
              /\ v.children.prev = "enabled" => v.page - 1 >= 0
              /\ v.children.next = "enabled" => v.page + 1 <= v.total_pages - 1

\* C13 witness: a view shows the middle page of three with both buttons
\* enabled, and another one its last page with next disabled.
C13_Witness ==
    /\ \E i \in ViewIds :
          /\ views[i].state = "active"
          /\ views[i].page = 1
          /\ views[i].total_pages = 3
          /\ views[i].children.prev = "enabled"
          /\ views[i].children.next = "enabled"
    /\ \E i \in ViewIds :
          /\ views[i].state = "active"
          /\ views[i].page = 0
          /\ views[i].children.prev = "disabled"

\* C14: a select, prev or next step changes only views its actor owns; when
\* the actor owns no view at all the step changes no view, quote, vote or
\* modal and answers "This is not your selection!"; and a step answered so
\* changes none of them.
C14_OnlyOwnerActs ==
    [][ (steps' # steps /\ last'.op \in {"select", "prev", "next"}) =>
            /\ \A i \in ViewIds :
                  views'[i] # views[i] => views[i].user_id = last'.user
            /\ Len(views') = Len(views)
            /\ (\A i \in ViewIds : views[i].user_id # last'.user) =>
                  /\ last'.result = "not_your_selection"
                  /\ UNCHANGED <<views, quotes, quote_votes, modals>>
            /\ last'.result = "not_your_selection" =>
                  /\ UNCHANGED <<views, quotes, quote_votes, modals>>
                  /\ \E i \in ViewIds : views[i].user_id # last'.user
      ]_vars

\* C14 witness: user 2 just chose a quote in the remove session of user 1,
\* the only session there is, and got the rejection; the quote is stored.
C14_Witness ==
    /\ last.op = "select"
    /\ last.result = "not_your_selection"
    /\ Len(views) = 1
    /\ views[1].kind = "remove"
    /\ views[1].user_id # last.user
    /\ views[1].page = 1
    /\ \E q \in quotes : q.id = last.arg

AllDisabled(children) ==
    /\ children.select # "enabled"
    /\ children.prev # "enabled"
    /\ children.next # "enabled"

Without(seq, id) == SelectSeq(seq, LAMBDA r : r.id # id)

\* C16: the rows of a view change only in a removal its owner selects in
\* it, and then lose exactly the selected row; prev and next steps change
\* no row, quote, vote or modal; whatever else happens to the store, every
\* view keeps its rows.
C16_RowsAreASnapshot ==
    [][ /\ \A i \in ViewIds :
              views'[i].rows # views[i].rows =>
                  /\ last'.op = "select"
                  /\ last'.result = "removed"
                  /\ last'.user = views[i].user_id
                  /\ views'[i].rows = Without(views[i].rows, last'.arg)
                  /\ \A j \in ViewIds \ {i} : views'[j].rows = views[j].rows
        /\ (steps' # steps /\ last'.op \in {"prev", "next"}) =>
              /\ UNCHANGED <<quotes, quote_votes, modals, nextId>>
              /\ \A i \in ViewIds : views'[i].rows = views[i].rows
      ]_vars

\* C16 witness: after a removal in another session a view still lists, on
\* the page it shows, a quote that is not stored any more.
C16_Witness ==
    /\ last.op = "select"
    /\ last.result = "removed"
    /\ \E i \in ViewIds :
          /\ views[i].state = "active"
          /\ last.arg \in views[i].children.options
          /\ last.arg \in PageIds(views[i])
          /\ \A q \in quotes : q.id # last.arg

\* C17: a removal answered "removed" deletes the selected quote of the
\* session's guild (and its votes) and nothing else, and one remove view of
\* the actor loses that row, the others keeping their order; if no row is
\* left the view turns to the "all removed" display without items on its
\* message, otherwise it stays active and shows the re-rendered page.
C17_RemovalShrinksRows ==
    [][ (steps' # steps /\ last'.op = "select" /\ last'.result = "removed") =>
            /\ \E q \in quotes : q.id = last'.arg /\ q.guild_id = last'.guild
            /\ quotes' = {q \in quotes : q.id # last'.arg}
            /\ quote_votes' = {v \in quote_votes : v.quote_id # last'.arg}
            /\ \E i \in ViewIds :
                  /\ views[i].kind = "remove"
                  /\ views[i].state = "active"
                  /\ views[i].user_id = last'.user
                  /\ \A j \in ViewIds \ {i} : views'[j] = views[j]
                  /\ views'[i].rows = Without(views[i].rows, last'.arg)
                  /\ IF views'[i].rows = << >>
                     THEN /\ views'[i].state = "all_removed"
                          /\ ~views'[i].attached
                     ELSE /\ views'[i].state = "active"
                          /\ views'[i].attached
                          /\ views'[i].children.select = "enabled"
                          /\ views'[i].children.options = PageIds(views'[i])
      ]_vars

\* C17 witness: the last row of a remove session was just removed; the view
\* shows "all removed" without items and the quote is gone from the store.
C17_Witness ==
    /\ last.op = "select"
    /\ last.result = "removed"
    /\ \A q \in quotes : q.id # last.arg
    /\ \E i \in ViewIds :
          /\ views[i].state = "all_removed"
          /\ views[i].rows = << >>
          /\ ~views[i].attached
          /\ views[i].user_id = last.user

StoredIn(g, id) == \E q \in quotes : q.id = id /\ q.guild_id = g

\* C18: a selection its owner makes in a remove session for a quote that is
\* not stored in the session's guild any more is answered "not found or
\* already deleted"; a selection answered so found no such quote and
\* changes no quote, vote, modal or view (the session stays active on its
\* page).
C18_RemoveOfDeletedIsNotFound ==
    [][ ( /\ steps' # steps
          /\ last'.op = "select"
          /\ last'.result \in {"removed", "not_found_or_deleted"} )
            => /\ ~StoredIn(last'.guild, last'.arg) =>
                     last'.result = "not_found_or_deleted"
               /\ last'.result = "not_found_or_deleted" =>
                     /\ ~StoredIn(last'.guild, last'.arg)
                     /\ UNCHANGED <<quotes, quote_votes, modals, views>>
      ]_vars

\* C18 witness: a remove session still lists, and is active on, a quote that
\* another session of the guild removed; its owner just selected it and got
\* "not found or already deleted".
C18_Witness ==
    /\ last.op = "select"
    /\ last.result = "not_found_or_deleted"
    /\ \E i \in ViewIds :
          /\ views[i].kind = "remove"
          /\ views[i].state = "active"
          /\ views[i].guild_id = last.guild
          /\ views[i].user_id = last.user
          /\ last.arg \in RowIds(views[i].rows)
          /\ views[i].page = 0
    /\ \E j \in ViewIds :
          views[j].state = "all_removed" /\ views[j].guild_id = last.guild

\* C19: a submit of an edit modal whose quote is not stored in the modal's
\* guild any more is answered "not found or already deleted" and changes no
\* quote.
C19_EditOfDeletedIsNotFound ==
    [][ (steps' # steps /\ last'.op = "edit_submit") =>
            \A j \in 1..Len(modals) :
                ( /\ modals' = RemoveAt(modals, j)
                  /\ modals[j].user_id = last'.user
                  /\ modals[j].guild_id = last'.guild
                  /\ ~StoredIn(modals[j].guild_id, modals[j].quote.id)
                  /\ \A k \in 1..Len(modals) : modals[k] = modals[j] )
                    => /\ last'.result = "not_found_or_deleted"
                       /\ quotes' = quotes
      ]_vars

\* C20: a selection or a submit made in a session of guild g keeps every
\* quote of every other guild, with its votes, and adds none there.
C20_OtherGuildsUntouched ==
    [][ (steps' # steps /\ last'.op \in {"select", "edit_submit"}) =>
            /\ {q \in quotes : q.guild_id # last'.guild}
                  = {q \in quotes' : q.guild_id # last'.guild}
            /\ \A q \in quotes : q.guild_id # last'.guild =>
                  {v \in quote_votes : v.quote_id = q.id}
                      = {v \in quote_votes' : v.quote_id = q.id}
      ]_vars

\* C20 witness: a remove session of one guild was just handed the id of a
\* quote of another guild; the quote and its vote are still stored.
C20_Witness ==
    /\ last.op = "select"
    /\ last.result = "not_found_or_deleted"
    /\ \E q \in quotes :
          /\ q.id = last.arg
          /\ q.guild_id # last.guild
          /\ \E v \in quote_votes : v.quote_id = q.id
    /\ \E i \in ViewIds : views[i].kind = "remove" /\ views[i].guild_id = last.guild

(***************************************************************************)
(* Claims on edits, cascades and the reaction bridge.                      *)
(***************************************************************************)
\* C21: a modal submit answered "updated" changes at most the quote_text,
\* author_name and context of the modal's quote: that quote keeps its id,
\* guild_id, added_by_id and created_at, every other quote is unchanged and
\* so is every vote row, hence every score.
C21_EditTouchesThreeFields ==
    [][ (steps' # steps /\ last'.op = "edit_submit" /\ last'.result = "updated") =>
            /\ quote_votes' = quote_votes
            /\ \A q \in quotes : get_quote_score(quote_votes', q.id)
                                    = get_quote_score(quote_votes, q.id)
            /\ {q.id : q \in quotes'} = {q.id : q \in quotes}
            /\ \A q \in quotes, r \in quotes' :
                  r.id = q.id =>
                      /\ r.guild_id = q.guild_id
                      /\ r.added_by_id = q.added_by_id
                      /\ r.created_at = q.created_at
                      /\ r # q => /\ q.guild_id = last'.guild
                                  /\ r.quote_text = last'.arg
                                  /\ \E j \in 1..Len(modals) :
                                        modals[j].quote.id = q.id
            /\ Cardinality(quotes' \ quotes) <= 1
      ]_vars

\* C21 witness: the voted quote of guild 1 was just given a new text; it has
\* its id, submitter, date and vote, and guild 2's quote is as it was.
C21_Witness ==
    /\ last.op = "edit_submit"
    /\ last.result = "updated"
    /\ [FirstQuote EXCEPT !.quote_text = last.arg] \in quotes
    /\ FirstQuote.quote_text # last.arg
    /\ SecondQuote \in quotes
    /\ VoteRow(1, 2, -1) \in quote_votes

\* C22: every vote row references a stored quote, in every state: a removal
\* takes the quote's votes with it, and a reaction-add whose coroutine
\* reaches the store after the removal inserts nothing.
C22_VotesReferenceQuotes ==
    \A v \in quote_votes : \E q \in quotes : q.id = v.quote_id

\* C22 witness: the voted quote of guild 1 is removed, none of its votes is
\* left, and a vote cast on its posted message afterwards was rejected.
C22_Witness ==
    /\ FirstQuote \notin quotes
    /\ VotesOf(quote_votes, 1) = {}
    /\ last.op = "reaction_db"
    /\ last.result = "fk_violation"
    /\ handlers = EmptyBag

\* the text ends in '#' followed by one or more digits
EndsInHashDigits(text) ==
    \E k \in 1..(Len(text) - 1) :
        /\ text[k] = "#"
        /\ \A j \in (k + 1)..Len(text) : IsDigit(text[j])

\* the event of coroutine h is one the bridge has to ignore
IgnoredEvent(h) ==
    \/ h.user_id = BotId
    \/ h.emoji \notin {UP, DOWN}
    \/ h.message_id \notin 1..Len(messages)
    \/ messages[h.message_id].author # BotId
    \/ ~EndsInHashDigits(messages[h.message_id].footer)

Footers == [m \in 1..Len(messages) |-> messages[m].footer]

\* C23: a reaction event by the bot itself, with an emoji that is no vote
\* emoji, on a message that cannot be fetched, on a message the bot did not
\* write, or on one whose footer does not end in '#<digits>' is ignored: its
\* coroutine never gets past the checks, and every step that changes a vote
\* row or a footer is one of a coroutine whose event is none of these.
C23_IgnoredEventsChangeNothing ==
    [][ /\ \A h \in BagToSet(handlers') : IgnoredEvent(h) => h.pc = "fetch"
        /\ (quote_votes' # quote_votes \/ Footers' # Footers) =>
              \E h \in BagToSet(handlers) :
                  /\ ~IgnoredEvent(h)
                  /\ h.pc \in {"db", "edit"}
                  /\ BagCardinality(handlers') < BagCardinality(handlers)
                        \/ CopiesIn(h, handlers') < CopiesIn(h, handlers)
      ]_vars

\* C23 witness: a user voted on the copy another account sent and another
\* reacted to the help embed; both coroutines have ended, and no vote is
\* stored and no footer has changed.
C23_Witness ==
    /\ <<1, UP>> \in messages[2].reactions
    /\ <<2, DOWN>> \in messages[3].reactions
    /\ handlers = EmptyBag
    /\ quote_votes = {}
    /\ messages[1].footer = PostedMessage(FirstQuote, 0).footer
    /\ messages[2].footer = PostedMessage(FirstQuote, 0).footer
    /\ messages[3].footer = HelpFooter

\* the vote emojis user u shows on the posted message
VoteEmojis(u) == {e \in {UP, DOWN} : <<u, e>> \in messages[1].reactions}

\* the directions stored for user u on the posted quote
StoredVotes(u) == {v.vote : v \in {w \in quote_votes : w.quote_id = 1 /\ w.user_id = u}}

Rewritten == \A h \in BagToSet(handlers) : h.pc # "edit"

ScoreToken(score) == <<"[">> \o ScoreStr(score) \o <<"]">>

\* C25: the rewrite replaces the score token and nothing else: the footer
\* after the edit is the new score token followed by what followed the old
\* token, for every date, display name and id.
C25_OnlyScoreTokenRewritten ==
    Rewritten =>
        messages[1].footer =
            ScoreToken(last.arg[5])
                \o SubSeq(last.result, Len(ScoreToken(last.arg[1])) + 1,
                          Len(last.result))

\* the text ends with the given suffix
EndsWith(text, suffix) ==
    /\ Len(suffix) <= Len(text)
    /\ SubSeq(text, Len(text) - Len(suffix) + 1, Len(text)) = suffix

\* the token of a score as the claim spells it
ClaimedToken(score) ==
    IF score > 0 THEN <<"[", "+">> \o NatToStr(score) \o <<"]">>
    ELSE IF score < 0 THEN <<"[", "-">> \o NatToStr(0 - score) \o <<"]">>
    ELSE <<"[", "0">> \o <<"]">>

\* C26: the rendered footer ends in '#n' and the bridge extracts n from it;
\* it starts with the score token '[+s]', '[-|s|]' or '[0]', which the
\* score-token pattern matches; and the footer rewritten with score s' is
\* the footer rendered with score s'.
C26_FooterRoundTrip ==
    /\ EndsWith(last.result, <<"#">> \o NatToStr(last.arg[4]))
    /\ FooterQuoteId(last.result) = last.arg[4]
    /\ \A h \in BagToSet(handlers) : h.pc = "db" => h.quote_id = last.arg[4]
    /\ SubSeq(last.result, 1, Len(ClaimedToken(last.arg[1])))
          = ClaimedToken(last.arg[1])
    /\ ScoreTokenLen(last.result, 1) = Len(ClaimedToken(last.arg[1]))
    /\ Rewritten =>
          messages[1].footer =
              FooterText(last.arg[5], last.arg[2], last.arg[3], last.arg[4])

(***************************************************************************)
(* Claims on denials and candidate lists.                                  *)
(***************************************************************************)
\* the actor of the answer has none of the rights its command asks for
LacksRight(l) ==
    /\ l.guild \in Guilds
    /\ pool
    /\ l.user \notin ADMIN_IDS
    /\ CASE l.op \in {"edit_quote", "remove_quote"} ->
                ~Granted(l.guild, l.user, OwnGrant(l.op))
                    /\ ~Granted(l.guild, l.user, AllGrant(l.op))
         [] l.op \in {"untimeout", "nickname"} ->
                ~Granted(l.guild, l.user, NeededGrant(l.op))
         [] l.op \in {"grant_perm", "revoke_perm", "list_perms"} -> TRUE
         [] OTHER -> FALSE

\* C28: a command whose actor lacks the right it asks for answers with the
\* denial, whatever quotes the guild holds, and a denial leaves quotes,
\* votes, grants, sessions and the moderation log as they were.
C28_DenialBeforeAccess ==
    [][ steps' # steps =>
          /\ LacksRight(last') =>
                last'.result = IF last'.op \in {"grant_perm", "revoke_perm", "list_perms"}
                               THEN "admins_only" ELSE "no_permission"
          /\ last'.result \in {"admins_only", "no_permission"} =>
                UNCHANGED <<quotes, nextId, quote_votes, permissions, views,
                            modals, messages, handlers, modlog>>
      ]_vars

\* C28 witness: user 2, without grants, is denied /quote remove in a guild
\* that holds a quote user 2 added; no session exists.
C28_Witness ==
    /\ last.op = "remove_quote"
    /\ last.result = "no_permission"
    /\ last.user = 2
    /\ GrantsOf(last.guild, 2) = {}
    /\ OwnQuoteIds(last.guild, 2) # {}
    /\ views = << >>

\* C29: a session /quote edit or /quote remove opens for an actor holding
\* the OWN grant and not the ALL grant lists only quotes the actor added (all
\* of them, the commands of SpecStore passing no filter); one opened for an
\* actor holding the ALL grant lists the quotes of every submitter.
C29_OwnOnlyListsOwnQuotes ==
    [][ (/\ steps' # steps
         /\ last'.op \in {"edit_quote", "remove_quote"}
         /\ last'.result = "view_opened") =>
            LET v == views'[Len(views')]
                u == last'.user
                g == last'.guild
            IN  /\ Len(views') = Len(views) + 1
                /\ (Granted(g, u, OwnGrant(last'.op)) /\ ~Granted(g, u, AllGrant(last'.op))) =>
                      /\ \A k \in 1..Len(v.rows) : v.rows[k].added_by_id = u
                      /\ {v.rows[k].id : k \in 1..Len(v.rows)} = OwnQuoteIds(g, u)
                /\ Granted(g, u, AllGrant(last'.op)) =>
                      {v.rows[k].id : k \in 1..Len(v.rows)} = GuildQuoteIds(g)
      ]_vars

\* C29 witness: user 2, holding only the OWN grants, opened an edit session
\* in a guild that also holds a quote of user 1; the session lists user 2's
\* quote alone.
C29_Witness ==
    /\ last.op = "edit_quote"
    /\ last.result = "view_opened"
    /\ last.user = 2
    /\ Granted(last.guild, 2, EDIT_OWN)
    /\ ~Granted(last.guild, 2, EDIT_ALL)
    /\ OwnQuoteIds(last.guild, 1) # {}
    /\ {views[Len(views)].rows[k].id : k \in 1..Len(views[Len(views)].rows)}
          = OwnQuoteIds(last.guild, 2)

\* term occurs in col, letter case ignored
ContainsCI(col, term) ==
    \E k \in 0..(Len(col) - Len(term)) :
        \A j \in 1..Len(term) : Lower(col[k + j]) = Lower(term[j])

\* the term holds none of the characters LIKE gives a meaning to
IsPlain(term) == \A j \in 1..Len(term) : term[j] \notin {"%", "_", "\\"}

\* the k-th filter of the command that answered l, None if it has none
FilterOf(l, k) == IF k <= Len(l.arg) THEN l.arg[k] ELSE None

\* the answer ends a command that built its candidate list
BuiltList(l) ==
    /\ l.op \in {"find_quote", "remove_quote", "edit_quote"}
    /\ l.result \in {"view_opened", "no_quotes"}

\* the quotes the command that answered l may list at all
Listable(l) ==
    {q \in quotes :
        /\ q.guild_id = l.guild
        /\ (l.op # "find_quote" /\ ~Granted(l.guild, l.user, AllGrant(l.op)))
              => q.added_by_id = l.user}

\* the candidate list of the command that answered l is the set S, newest
\* first, in a new session; when S is empty no session is opened
ListIs(l, S, before, after) ==
    IF S = {}
    THEN l.result = "no_quotes" /\ after = before
    ELSE /\ l.result = "view_opened"
         /\ Len(after) = Len(before) + 1
         /\ SubSeq(after, 1, Len(before)) = before
         /\ LET rows == after[Len(after)].rows
            IN  /\ {rows[k] : k \in 1..Len(rows)} = S
                /\ Len(rows) = Cardinality(S)
                /\ \A k \in 1..(Len(rows) - 1) :
                      rows[k].created_at > rows[k + 1].created_at

\* a filter as the claim reads it: a case-insensitive substring of its field
SubstringOf(col, term) == term # None => (col # None /\ ContainsCI(col, term))

PatternOn(col, term) ==
    term # None =>
        IF IsPlain(term) THEN col # None /\ ContainsCI(col, term)
        ELSE ILike(col, term)

\* the search filter of /quote edit: any of the three fields matches
SearchAcross(q, term) ==
    term # None =>
        IF IsPlain(term)
        THEN \/ ContainsCI(q.quote_text, term)
             \/ ContainsCI(q.author_name, term)
             \/ ContainsCI(q.context, term)
        ELSE \/ ILike(q.quote_text, term)
             \/ ILikeCoalesce(q.author_name, term)
             \/ ILikeCoalesce(q.context, term)

C27_NoExceptionEscapes == last.result # "exception_escaped"

(***************************************************************************)
(* Claims on the scope of uniqueness and on grants.                        *)
(***************************************************************************)
\* C31: /quote add of text t in guild g succeeds whenever no quote (g, t) is
\* stored, also when t is stored in another guild, and the row it adds has
\* an id no stored quote has.
C31_UniquePerGuildOnly ==
    [][ (/\ steps' # steps
         /\ last'.op = "add_quote"
         /\ last'.guild \in Guilds
         /\ pool
         /\ QuotesOf(quotes, last'.guild, last'.arg) = {}) =>
            /\ last'.result = "added"
            /\ \E r \in quotes' :
                  /\ quotes' = quotes \cup {r}
                  /\ r.guild_id = last'.guild
                  /\ r.quote_text = last'.arg
                  /\ r.added_by_id = last'.user
                  /\ \A q \in quotes : q.id # r.id
      ]_vars

\* C31 witness: a text stored in one guild was just added to the other; the
\* two rows have different ids.
C31_Witness ==
    /\ last.op = "add_quote"
    /\ last.result = "added"
    /\ \E q \in quotes, r \in quotes :
          /\ q.guild_id # r.guild_id
          /\ q.quote_text = last.arg /\ r.quote_text = last.arg
          /\ r.guild_id = last.guild
          /\ q.id < r.id
          /\ r.id = nextId - 1

\* the grant rows of (g, u, p)
RowsOf(rows, g, u, p) ==
    {r \in rows : r.guild_id = g /\ r.user_id = u /\ r.permission = p}

\* C32: a grant that is applied leaves exactly one row (g, u, p) and every
\* other row as it was, and answers success; applied to a table that holds
\* the row it changes nothing and answers success all the same, and applying
\* it once more to its own result never changes that result.
C32_GrantIsIdempotent ==
    [][ (/\ steps' # steps
         /\ last'.op = "grant_perm"
         /\ last'.user \in ADMIN_IDS) =>
            LET g == last'.guild
                u == last'.arg[1]
                p == last'.arg[2]
            IN  /\ last'.result = "granted"
                /\ Cardinality(RowsOf(permissions', g, u, p)) = 1
                /\ permissions' \ RowsOf(permissions', g, u, p)
                      = permissions \ RowsOf(permissions, g, u, p)
                /\ RowsOf(permissions, g, u, p) # {} => permissions' = permissions
                /\ grant_permission(permissions', g, u, p, last'.user) = permissions'
      ]_vars

\* C32 witness: the first command of the run granted user 2 EDIT_OWN in
\* guild 1, which the table held already; it answered success and the table
\* is the one the run started with.
C32_Witness ==
    /\ steps = 1
    /\ last = Answer("grant_perm", 1, 1, <<2, EDIT_OWN>>, "granted")
    /\ GrantRow(1, 2, EDIT_OWN) \in SetUpGrants
    /\ permissions = SetUpGrants

\* C33: a revoke that is applied answers 'revoked' exactly when the row
\* (g, u, p) was in the table, 'did not have' otherwise; afterwards the row
\* is not in the table and every other row is as it was.
C33_RevokeReportsRemoval ==
    [][ (/\ steps' # steps
         /\ last'.op = "revoke_perm"
         /\ last'.user \in ADMIN_IDS) =>
            LET g == last'.guild
                u == last'.arg[1]
                p == last'.arg[2]
            IN  /\ last'.result = IF RowsOf(permissions, g, u, p) # {}
                                  THEN "revoked" ELSE "did_not_have"
                /\ RowsOf(permissions', g, u, p) = {}
                /\ permissions' = permissions \ RowsOf(permissions, g, u, p)
      ]_vars

\* C33 witness: the first command of the run revoked REMOVE_OWN of user 2 in
\* guild 2; it answered 'revoked', the row is gone and the other rows of the
\* table the run started with are there.
C33_Witness ==
    /\ steps = 1
    /\ last = Answer("revoke_perm", 1, 2, <<2, REMOVE_OWN>>, "revoked")
    /\ permissions = SetUpGrants \ {GrantRow(2, 2, REMOVE_OWN)}
    /\ Cardinality(permissions) = Cardinality(SetUpGrants) - 1

\* C38: whenever the grant command has answered 'Granted', the row it names
\* is in the grant table.
C38_GrantedOnlyIfStored ==
    (last.op = "grant_perm" /\ last.result = "granted") =>
        RowsOf(permissions, last.guild, last.arg[1], last.arg[2]) # {}

\* the sessions of q's guild that have dropped quote q from their rows (a
\* session is opened with every quote its guild holds), and the picks of q
\* in flight whose DELETE removed a row
Droppers(q) ==
    {i \in 1..Len(views) :
        /\ views[i].kind = "remove"
        /\ \E r \in {FirstQuote, SecondQuote} :
              r.id = q /\ r.guild_id = views[i].guild_id
        /\ q \notin RowIds(views[i].rows)}

WinningPicks(q) ==
    {c \in BagToSet(handlers) : c.quote_id = q /\ c.result # "DELETE 0"}

\* C34: however the picks of a quote q that several remove sessions list
\* interleave, q is deleted by exactly one of them: a pick's DELETE removes a
\* row exactly when q is still stored, the pick that removed it reports
\* 'removed' and drops q from the rows of its session, every other pick
\* reports 'not found or already deleted' and leaves its session's rows
\* alone, and at any moment the sessions that dropped q plus the winning
\* picks in flight are one if q is gone and none if it is stored.
C34_OnePickWins ==
    [][ /\ \A q \in 1..2 :
              Cardinality(Droppers(q)') + Cardinality(WinningPicks(q)')
                 = IF \E r \in quotes' : r.id = q THEN 0 ELSE 1
        /\ \A c \in BagToSet(handlers') : CopiesIn(c, handlers') > 1 =>
              c.result = "DELETE 0"
        /\ \A c \in BagToSet(handlers) :
              (steps' = steps /\ handlers' = Finish(handlers, c)) =>
                 IF c.result = "DELETE 0"
                 THEN /\ last'.result = "not_found_or_deleted"
                      /\ views' = views
                 ELSE /\ last'.result = "removed"
                      /\ last'.arg = c.quote_id
                      /\ c.quote_id \in RowIds(views[c.view].rows)
                      /\ c.quote_id \notin RowIds(views'[c.view].rows)
                      /\ \A i \in 1..Len(views) : i # c.view => views'[i] = views[i]
        /\ (steps' # steps /\ handlers' # handlers) =>
              \E c \in BagToSet(handlers') :
                 /\ handlers' = Spawn(handlers, c)
                 /\ (c.result # "DELETE 0") <=> (\E r \in quotes : r.id = c.quote_id)
                 /\ quotes' = {r \in quotes : r.id # c.quote_id}
      ]_vars

\* C34 witness: two sessions of different users list quote 2 and both picked
\* it; the pick of the second session has reported 'not found or already
\* deleted' while the pick of the first, whose DELETE removed the quote, has
\* not yet answered.
C34_Witness ==
    /\ Len(views) = 2
    /\ views[1].user_id # views[2].user_id
    /\ 2 \in RowIds(views[1].rows) /\ 2 \in RowIds(views[2].rows)
    /\ last = Answer("select", views[2].user_id, 2, 2, "not_found_or_deleted")
    /\ handlers = SetToBag({[pc |-> "respond", view |-> 1,
                             user_id |-> views[1].user_id,
                             quote_id |-> 2, result |-> "DELETE 1"]})
    /\ \A r \in quotes : r.id # 2

\* the footer of message m shows score n
Shows(m, n) ==
    /\ Len(messages[m].footer) >= Len(ScoreToken(n))
    /\ SubSeq(messages[m].footer, 1, Len(ScoreToken(n))) = ScoreToken(n)

\* C35: when no coroutine is in flight (no edit fails in SpecShown), every
\* posted message of the quote shows the quote's score.
C35_ShownScoreConverges ==
    handlers = EmptyBag =>
        \A m \in 1..Len(messages) : Shows(m, get_quote_score(quote_votes, 1))

\* C37: a coroutine whose edit fails ends there: it is gone from the
\* coroutines in flight and none is started in its place, no exception
\* leaves it, the votes and the messages are as they were.  Failures do not
\* stop the listener: in every state, so also after failed edits, a reaction
\* of a user starts a coroutine and a coroutine's upsert stores the vote.
C37_FailedEditIsSwallowed ==
    [][ /\ (last' # last /\ last'.op = "on_reaction_change") =>
              /\ last'.result = "error_printed"
              /\ \E h \in BagToSet(handlers) :
                    /\ h.pc = "edit"
                    /\ h.user_id = last'.user
                    /\ handlers' = Finish(handlers, h)
              /\ quote_votes' = quote_votes
              /\ messages' = messages
        /\ steps' # steps =>
              \E u \in Users, e \in {UP, DOWN}, added \in BOOLEAN :
                 handlers' = Spawn(handlers, NewHandler(u, 1, e, added))
        /\ \A h \in BagToSet(handlers) :
              (h.pc = "db" /\ h.added
               /\ handlers' = Advance(handlers, h, [h EXCEPT !.pc = "unreact"])) =>
                  VoteRow(h.quote_id, h.user_id, VoteVal(h.emoji)) \in quote_votes'
        /\ \A h \in BagToSet(handlers) :
              h.pc = "db" /\ h.added => ENABLED Handler_db(h)
      ]_vars

\* C37 witness: user 1's thumbs-up is stored and its coroutine is gone, yet
\* the message does not show it: its edit failed.  After that the coroutine of
\* user 2's thumbs-up has stored user 2's vote and goes on.
C37_Witness ==
    /\ quote_votes = {VoteRow(1, 1, 1), VoteRow(1, 2, 1)}
    /\ Shows(1, 0)
    /\ last = Answer("reaction_db", 2, 0, <<1, 1>>, "vote_stored")
    /\ handlers = SetToBag({[NewHandler(2, 1, UP, TRUE) EXCEPT
                                !.pc = "unreact", !.quote_id = 1,
                                !.footer = messages[1].footer]})

\* rights <<own, all>> cover the stored quote with id quote_id for user u
Covers(rights, u, quote_id) ==
    \/ rights[2]
    \/ rights[1] /\ \E r \in quotes : r.id = quote_id /\ r.added_by_id = u

\* C36: a session removes a quote only for an actor whose grants, at that
\* moment, cover the removal of that quote, and an edit form updates a
\* stored quote only for an actor whose grants, at that moment, cover the
\* edit of that quote.
C36_MutationsNeedCurrentRight ==
    [][ /\ (steps' # steps /\ last'.op = "select" /\ last'.result = "removed") =>
              Covers(can_remove(last'.guild, last'.user), last'.user, last'.arg)
        /\ (steps' # steps /\ last'.op = "edit_submit" /\ last'.result = "updated") =>
              \A j \in 1..Len(modals) :
                 (/\ modals' = SubSeq(modals, 1, j - 1) \o SubSeq(modals, j + 1, Len(modals))
                  /\ \E r \in quotes : r.id = modals[j].quote.id) =>
                     Covers(can_edit(modals[j].guild_id, modals[j].user_id),
                            modals[j].user_id, modals[j].quote.id)
      ]_vars

\* where create_pool stands is consistent with its loop: it is in attempt
\* number attempt + 1 of at most max_retries, it has slept retry_delay once
\* before every attempt but the first and at no other time, it returns the
\* pool from the attempt that connected, and None after max_retries refused
\* attempts (or at once when no URL is configured); the bot has no pool yet
StartupAsClaimed ==
    last.op = "create_pool" =>
        LET attempt == last.arg[1]
            waited  == last.arg[2]
        IN  /\ ~pool
            /\ attempt \in 0..(max_retries - 1)
            /\ waited = retry_delay * attempt
            /\ last.result \in {"called", "none_unset"} => attempt = 0
            /\ last.result = "none" => attempt = max_retries - 1

\* the store and the platform state are as they were
StoreUntouched ==
    UNCHANGED <<quotes, nextId, quote_votes, permissions, views, modals,
                messages, handlers, modlog>>

\* C39: create_pool ends and the bot starts, whatever the attempts do; it
\* makes at most max_retries attempts, sleeps the fixed delay between two
\* attempts and not after the last, returns the pool at the first attempt
\* that connects and None after the last refusal; the bot holds a pool
\* exactly when create_pool returned one, and without a pool every command
\* that needs the database is rejected and touches nothing: its requires_db
\* guard answers 'database not available' (in a direct message the
\* guild_only guard around it has answered before).
C39_StartupEndsWithPoolOrNone ==
    /\ []StartupAsClaimed
    /\ [][ /\ (last.op = "create_pool" /\ last'.op # "create_pool") =>
                 /\ pool' = (last.result = "pool")
                 /\ last.result \in {"pool", "none", "none_unset"}
           /\ (last.op # "create_pool" /\ ~pool /\ steps' # steps) =>
                 /\ last'.result = IF last'.guild = NoGuild THEN "guild_only"
                                   ELSE "db_unavailable"
                 /\ ~pool'
                 /\ StoreUntouched
         ]_vars
    /\ <>(last.op # "create_pool")

\* C39 witness: all max_retries attempts were refused, with the delay slept
\* between them and not after the last; create_pool returned None and the
\* bot has started without a pool.
C39_Witness ==
    /\ ~pool
    /\ last = Answer("setup_hook", 0, 0,
                     <<max_retries - 1, retry_delay * (max_retries - 1)>>, "started")

====
